---- MODULE Spec2Model ----
(***************************************************************************)
(* ListrX: the Task and Subtask classes (dynamic subtask injection,        *)
(* src/unnamed/part_000), the DynamicTaskQueue class                       *)
(* (src/src/task-queue.mjs), the singleton queue                           *)
(* (src/src/singleton.mjs) and, of the DynamicTaskQueue with subtask       *)
(* support (src/unnamed/part_003), the execution of one item and the       *)
(* options of its subtask lists, as state machines over the JavaScript     *)
(* event loop.                                                             *)
(*                                                                         *)
(* Execution is single-threaded cooperative.  A synchronous stretch of     *)
(* code, from an entry point (an API call, a timer callback, the           *)
(* continuation of an await) to the next await, is one atomic action.      *)
(* Every async invocation (#processBatch, complete(), the autoExecute      *)
(* callback, #processQueue) is a record of `procs` / `qprocs` holding the  *)
(* await it is suspended at.  A continuation whose awaited promise has     *)
(* settled is a microtask: timer callbacks (macrotasks) do not fire while  *)
(* one is ready.  Bodies of tasks take arbitrary time and end either       *)
(* normally or by throwing.  The renderer (listr2) is modelled by its      *)
(* contract: it starts the tasks of a list in order (all at once when      *)
(* concurrent), and run() rejects at the first failure iff exitOnError.    *)
(***************************************************************************)
EXTENDS Integers, Sequences, FiniteSets, TLC

\* ------------------------------------------------------------------ bounds
MaxSubtasks == 2        \* Task.add() calls in one behaviour
MaxCompleteCalls == 2   \* Task.complete() calls in one behaviour
MaxShutdownCalls == 1   \* Task.forceShutdown() calls in one behaviour
MaxChildren == 2        \* accepted Subtask.add() calls on one subtask

MaxTasks == 3            \* accepted DynamicTaskQueue.add() calls in one behaviour
MaxQCompleteCalls == 2   \* DynamicTaskQueue.complete() calls in one behaviour
MaxQShutdownCalls == 1   \* DynamicTaskQueue.forceShutdown() calls in one behaviour

MaxStatic == 2           \* static subtasks of one queue item
MaxDepth == 2            \* nesting depth of static subtasks below an item
MaxListeners == 3        \* state$ and subtasks$ subscriptions in one behaviour
MaxRetries == 2          \* retries of one queue item by the renderer
MaxResetCalls == 2       \* resetQueue() calls in one behaviour
MaxInstances == 2        \* queues getQueue() creates in one behaviour

Reasons == {"X", "Y"}        \* reasons handed to forceShutdown(reason)

\* Async invocations that can be suspended at once: a #processBatch holds a
\* batch of its own or awaits the body, an autoExecute callback stems from
\* an add(), and complete() is called MaxCompleteCalls times.
MaxProcs == 2 * MaxSubtasks + MaxCompleteCalls
Slots == 1..MaxProcs

SubIds == 1..MaxSubtasks

\* A #processQueue holds a batch of its own; complete() is called
\* MaxQCompleteCalls times.
MaxQProcs == MaxTasks + MaxQCompleteCalls
QSlots == 1..MaxQProcs
TaskIds == 1..MaxTasks

\* ------------------------------------------------------------------- state
VARIABLES
  cfg,               \* Task #config: mode, task (hasBody), options, autoExecute, autoComplete
  pendingSubtasks,   \* Task #pendingSubtasks (ids in insertion order)
  executedSubtasks,  \* Task #executedSubtasks
  state,             \* Task #state
  isShuttingDown,    \* Task #isShuttingDown
  isProcessing,      \* Task #isProcessing
  mainTaskExecuted,  \* Task #mainTaskExecuted
  completion,        \* settlement of #completionPromise: pending / resolved / rejected
  completionError,   \* the error #completionPromise was rejected with
  autoCompleteTimer, \* Task #autoCompleteTimer: none / armed / fired
  autoExecuteTimer,  \* Task #autoExecuteTimer: none / armed / fired
  processingPromise, \* Task #processingPromise: null, or the promise of a #processBatch invocation
  debounceTimers,    \* setTimeout callbacks of #scheduleProcessing not yet fired
  procs,             \* suspended async invocations: #processBatch (PB), complete() (CP), autoExecute callback (AE)
  sub,               \* per subtask: none / pending / queued / running (its body) /
                     \* children (its nested list) / done / failed / aborted
  children,          \* per subtask, Subtask #children: the state of each child
                     \* (added / running / done / failed / aborted)
  listed,            \* per subtask, the children in the definition _toListrTask built
  executed,          \* per subtask, Subtask #executed
  mainRun,           \* the body's run by the renderer: none / running / ok / failed
  mainStarts,        \* times the renderer was started on the body
  nAdded,            \* add() calls made so far (call k is about subtask k; a
                     \* refused call returns null and leaves sub[k] = none)
  notified,          \* subtasks handed to the subtasks$ listeners so far
  completeCalls,     \* complete() calls made so far
  completeReturned,  \* per complete() call: none / pending / adopted (it returned
                     \* #completionPromise and settles as that does) / threw
  shutdownCalls      \* the reasons of the forceShutdown(reason) calls made so far

tvars == <<cfg, pendingSubtasks, executedSubtasks, state, isShuttingDown,
           isProcessing, mainTaskExecuted, completion, completionError,
           autoCompleteTimer, autoExecuteTimer, processingPromise,
           debounceTimers, procs, sub, children, listed, executed, mainRun,
           mainStarts, nAdded, notified, completeCalls, completeReturned, shutdownCalls>>

\* DynamicTaskQueue
VARIABLES
  qcfg,               \* #listrOptions: concurrent, exitOnError
  taskBuffer,         \* #taskBuffer (ids in insertion order)
  qstate,             \* #stateSubject.value
  qIsShuttingDown,    \* #isShuttingDown
  qProcessingPromise, \* #processingPromise
  tasksProcessed,     \* #tasksProcessed
  tasksFailed,        \* #tasksFailed
  pipelineAlive,      \* the subscription of #initializeTaskProcessing is still open
  window,             \* tasks bufferTime has collected since its last emission
  qprocs,             \* suspended async invocations: #processQueue (PQ), complete() (CQ)
  task,               \* per task: none / buffered / queued / running / done / failed / aborted / dropped
  taskPromise,        \* per task, the promise add() returned: none / pending / resolved / rejected
  taskError,          \* per task, the error its promise was rejected with
  qAdded,             \* add() calls made so far
  sinceAdd,           \* time since the latest accepted add(): "within" or "past"
                      \* batchDebounceMs (past when there was none)
  qCompleteCalls,     \* complete() calls made so far
  qCompleteReturned,  \* per complete() call: none / pending / resolved / threw
  qShutdownCalls      \* the reasons of the forceShutdown(reason) calls made so far

qvars == <<qcfg, taskBuffer, qstate, qIsShuttingDown, qProcessingPromise,
           tasksProcessed, tasksFailed, pipelineAlive, window, qprocs, task,
           taskPromise, taskError, qAdded, sinceAdd, qCompleteCalls,
           qCompleteReturned, qShutdownCalls>>

\* One item of the DynamicTaskQueue with subtask support (part_003), as the
\* renderer runs it.
VARIABLES
  taskDef,     \* the TaskDefinition add() built: executor (none, or what it
               \* returns: a plain value or a Listr), subtasks (how many),
               \* subtaskMode, and the merged concurrent / exitOnError of its subtasks
  xpc,         \* the combined executor: idle / subs_before / body / subs_after / returned / threw
  bodyRun,     \* the item's executor (its body): none / running / ok / failed
  xsub,        \* per static subtask: none / queued / running / done / failed / aborted
  dynTree,     \* the Listr the body returned, run by the renderer: none / running / done / failed
  xTask,       \* the item in the renderer: waiting / running / retrying / done / failed
  listrRetry,  \* taskDef.listrOptions.retry: how often the renderer retries the item
  xAttempts,   \* times the renderer has called the item's task wrapper
  xPromise,    \* the promise add() returned: pending / resolved / rejected
  xProcessed,  \* #tasksProcessed
  xFailed      \* #tasksFailed

\* The options of the subtask lists along one path of an item's tree of
\* static subtasks (part_003), from the item down.
VARIABLES
  queueDefaults,  \* options.defaultSubtaskOptions given to the constructor
  optionsPath,    \* <<the item's subtaskOptions, the options of its subtask on
                  \* the path, the options of that one's subtask, ...>>
  parentOptions,  \* the options handed down to the list being built
  policies        \* per level run so far, the options its list was run with

ovars == <<queueDefaults, optionsPath, parentOptions, policies>>

\* The callbacks subscribed to a Task (part_000).
VARIABLES
  stateListeners,    \* Task #stateListeners: per callback its id and what it does
  subtaskListeners,  \* Task #subtaskListeners, likewise
  nListeners,        \* callbacks subscribed so far
  stateCalls,        \* the calls of state$ callbacks the last handler made: <<id, state>>
  subtaskCalls       \* the calls of subtasks$ callbacks the last handler made: <<id, subtask>>

lvars == <<stateListeners, subtaskListeners, nListeners, stateCalls, subtaskCalls>>

\* The singleton queue (src/src/singleton.mjs). The queue variables above
\* hold the instance it refers to, or referred to last.
VARIABLES
  singletonInstance,  \* "null", or "queue"
  instances,          \* queues getQueue() has created so far
  resetCalls,         \* resetQueue() calls made so far
  resetReturned,      \* per resetQueue() call: none / pending / resolved / threw
  resetAwaits         \* per resetQueue() call, the complete() call it awaits (0: none)

svars == <<singletonInstance, instances, resetCalls, resetReturned, resetAwaits>>

\* Task.add(list) (part_000).
VARIABLES
  addThrows  \* add() calls that have thrown so far

\* What the Task and queue actions below leave alone.
nvars == <<ovars, lvars, svars, addThrows>>

ivars == <<taskDef, listrRetry, xpc, bodyRun, xsub, dynTree, xTask, xAttempts, xPromise,
           xProcessed, xFailed>>

xvars == <<ivars, nvars>>

vars == <<tvars, qvars, xvars>>

\* A promise of a #processBatch invocation: null (no promise), pending (the
\* invocation is suspended in slot id), resolved or rejected.
NullP == [st |-> "null", id |-> 0]
PendingP(p) == [st |-> "pending", id |-> p]
ResolvedP == [st |-> "resolved", id |-> 0]
RejectedP == [st |-> "rejected", id |-> 0]

\* A suspended invocation: the await it is at (pc), the batch it submitted,
\* the promise it awaits (ref), whether it started the body's run (own), and
\* for complete() the number of the call.
NoProc ==
  [kind |-> "none", pc |-> "none", batch |-> <<>>, ref |-> NullP, own |-> FALSE, call |-> 0]

NewProc(kind, pc, batch, ref, own) ==
  [kind |-> kind, pc |-> pc, batch |-> batch, ref |-> ref, own |-> own, call |-> 0]

\* The mutable fields of the Task as one record (ret: the value returned by
\* the call just made), so that a synchronous call
\* chain is a composition of operators on it.
TaskRec ==
  [ pendingSubtasks |-> pendingSubtasks, executedSubtasks |-> executedSubtasks,
    state |-> state, isShuttingDown |-> isShuttingDown,
    isProcessing |-> isProcessing, mainTaskExecuted |-> mainTaskExecuted,
    completion |-> completion, completionError |-> completionError,
    autoCompleteTimer |-> autoCompleteTimer, autoExecuteTimer |-> autoExecuteTimer,
    processingPromise |-> processingPromise, debounceTimers |-> debounceTimers,
    procs |-> procs, sub |-> sub, children |-> children, listed |-> listed,
    executed |-> executed, mainRun |-> mainRun, mainStarts |-> mainStarts,
    notified |-> notified,
    completeReturned |-> completeReturned, ret |-> NullP ]

SetTask(t) ==
  /\ pendingSubtasks' = t.pendingSubtasks
  /\ executedSubtasks' = t.executedSubtasks
  /\ state' = t.state
  /\ isShuttingDown' = t.isShuttingDown
  /\ isProcessing' = t.isProcessing
  /\ mainTaskExecuted' = t.mainTaskExecuted
  /\ completion' = t.completion
  /\ completionError' = t.completionError
  /\ autoCompleteTimer' = t.autoCompleteTimer
  /\ autoExecuteTimer' = t.autoExecuteTimer
  /\ processingPromise' = t.processingPromise
  /\ debounceTimers' = t.debounceTimers
  /\ procs' = t.procs
  /\ sub' = t.sub
  /\ children' = t.children
  /\ listed' = t.listed
  /\ executed' = t.executed
  /\ mainRun' = t.mainRun
  /\ mainStarts' = t.mainStarts
  /\ notified' = t.notified
  /\ completeReturned' = t.completeReturned

\* Configurations: new Task(config) with its defaults (mode 'before').
Configs ==
  [ mode : {"before", "after"}, hasBody : BOOLEAN, concurrent : BOOLEAN,
    exitOnError : BOOLEAN, autoExecute : BOOLEAN, autoComplete : BOOLEAN ]

FreeSlot(t) == CHOOSE p \in Slots :
  /\ t.procs[p].kind = "none"
  /\ \A q \in Slots : q < p => t.procs[q].kind # "none"

\* Invocation p suspends (at pc) for the first time / returns or throws:
\* its promise settles and every reference to it sees the outcome.
Suspend(t, p, pr) == [t EXCEPT !.procs[p] = pr]

Settle(t, p, outcome) ==
  [t EXCEPT !.procs = [q \in Slots |->
                         IF q = p THEN NoProc
                         ELSE IF @[q].ref = PendingP(p) THEN [@[q] EXCEPT !.ref = outcome]
                         ELSE @[q]],
            !.processingPromise = IF @ = PendingP(p) THEN outcome ELSE @]

\* --------------------------------------------------------- private methods
setState(t, newState) == [t EXCEPT !.state = newState]

completionResolve(t) ==
  IF t.completion = "pending" THEN [t EXCEPT !.completion = "resolved"] ELSE t

completionReject(t, err) ==
  IF t.completion = "pending"
  THEN [t EXCEPT !.completion = "rejected", !.completionError = err]
  ELSE t

clearAutoExecuteTimer(t) == [t EXCEPT !.autoExecuteTimer = "none"]

clearAutoCompleteTimer(t) == [t EXCEPT !.autoCompleteTimer = "none"]

resetAutoExecuteTimer(t) ==
  LET t1 == clearAutoExecuteTimer(t) IN
  IF ~cfg.autoExecute \/ t1.isShuttingDown THEN t1
  ELSE [t1 EXCEPT !.autoExecuteTimer = "armed"]

\* #startAutoCompleteTimer without the test of #mainTaskExecuted on line 725.
startAutoCompleteTimerBeforeBody(t) ==
  LET t1 == clearAutoCompleteTimer(t) IN
  IF ~cfg.autoComplete \/ t1.isShuttingDown THEN t1
  ELSE IF Len(t1.pendingSubtasks) > 0 THEN t1
  ELSE [t1 EXCEPT !.autoCompleteTimer = "armed"]

\* #startAutoCompleteTimer without the test of #isShuttingDown on line 715.
startAutoCompleteTimerAnyway(t) ==
  LET t1 == clearAutoCompleteTimer(t) IN
  IF ~cfg.autoComplete THEN t1
  ELSE IF Len(t1.pendingSubtasks) > 0 THEN t1
  ELSE IF cfg.mode = "after" /\ ~t1.mainTaskExecuted THEN t1
  ELSE [t1 EXCEPT !.autoCompleteTimer = "armed"]

startAutoCompleteTimer(t) ==
  LET t1 == clearAutoCompleteTimer(t) IN
  IF ~cfg.autoComplete \/ t1.isShuttingDown THEN t1
  ELSE IF Len(t1.pendingSubtasks) > 0 THEN t1
  ELSE IF cfg.mode = "after" /\ ~t1.mainTaskExecuted THEN t1
  ELSE [t1 EXCEPT !.autoCompleteTimer = "armed"]

\* #onBatchComplete without line 562: the autoComplete timer is not started.
onBatchCompleteNoTimer(t) == t

onBatchComplete(t) ==
  IF t.isShuttingDown THEN t ELSE startAutoCompleteTimer(t)

scheduleProcessing(t) ==
  IF t.isProcessing \/ t.state = "completed" \/ t.state = "failed" THEN t
  ELSE [t EXCEPT !.debounceTimers = @ + 1]

\* Every listener of subtasks$ is called with the new subtask.
notifySubtaskListeners(t) == [t EXCEPT !.notified = @ + 1]

triggerProcessing(t) ==
  IF t.isProcessing THEN t ELSE scheduleProcessing(t)

\* #executeMainTask up to its await: TRUE in the second component iff the
\* renderer was started on the body (the caller then waits for that run).
executeMainTaskStarts(t) == ~t.mainTaskExecuted /\ cfg.hasBody

\* #executeMainTask without the test of #mainTaskExecuted on line 597.
executeMainTaskUnflagged(t) ==
  IF cfg.hasBody
  THEN [t EXCEPT !.mainTaskExecuted = TRUE, !.mainRun = "running", !.mainStarts = @ + 1]
  ELSE [t EXCEPT !.mainTaskExecuted = TRUE]

executeMainTask(t) ==
  IF executeMainTaskStarts(t)
  THEN [t EXCEPT !.mainTaskExecuted = TRUE, !.mainRun = "running", !.mainStarts = @ + 1]
  ELSE [t EXCEPT !.mainTaskExecuted = TRUE]

\* #executeSubtasks up to its await: _toListrTask builds the definition of
\* each subtask from the children it has now, and the renderer starts the
\* first task of the list, or all of them when options.concurrent.
executeSubtasks(t, batch) ==
  [t EXCEPT !.sub = [i \in SubIds |->
      IF \E k \in 1..Len(batch) : batch[k] = i
      THEN IF cfg.concurrent \/ batch[1] = i THEN "running" ELSE "queued"
      ELSE @[i]],
            !.listed = [i \in SubIds |->
      IF \E k \in 1..Len(batch) : batch[k] = i THEN Len(t.children[i]) ELSE @[i]]]

\* Settlement of the renderer's run() on a batch.
RunOutcome(t, batch) ==
  IF cfg.exitOnError /\ \E k \in 1..Len(batch) : t.sub[batch[k]] = "failed"
  THEN "rejected"
  ELSE IF \A k \in 1..Len(batch) : t.sub[batch[k]] \in {"done", "failed"}
  THEN "resolved"
  ELSE "pending"

MainThrew(t) == t.mainRun = "failed" /\ cfg.exitOnError

\* #processBatch from its call to its first await (or to its return); ret
\* is the promise it returns.
processBatch(t) ==
  IF Len(t.pendingSubtasks) = 0
  THEN [onBatchComplete([t EXCEPT !.isProcessing = FALSE]) EXCEPT !.ret = ResolvedP]
  ELSE
    LET p == FreeSlot(t)
        t1 == setState([t EXCEPT !.isProcessing = TRUE, !.ret = PendingP(p)], "processing")
    IN
    IF cfg.mode = "before" /\ ~t1.mainTaskExecuted
    THEN LET own == executeMainTaskStarts(t1) IN
         Suspend(executeMainTask(t1), p, NewProc("PB", "pb_main", <<>>, NullP, own))
    ELSE LET batch == t1.pendingSubtasks IN
         Suspend(executeSubtasks([t1 EXCEPT !.pendingSubtasks = <<>>], batch),
                 p, NewProc("PB", "pb_subs", batch, NullP, FALSE))

\* #processBatch lines 524-531 and 540-546: the batch is over.
processBatchEnd(t, p) ==
  LET t1 == Settle([t EXCEPT !.isProcessing = FALSE], p, ResolvedP) IN
  IF Len(t1.pendingSubtasks) > 0
  THEN LET t2 == processBatch(t1) IN [t2 EXCEPT !.processingPromise = t2.ret]
  ELSE onBatchComplete(t1)

\* #processBatch catch block, lines 532-547.
processBatchCatch(t, p, err) ==
  IF cfg.exitOnError
  THEN LET t1 == setState([t EXCEPT !.isProcessing = FALSE], "failed") IN
       Settle(completionReject(t1, err), p, RejectedP)
  ELSE processBatchEnd(t, p)

\* #processBatch lines 514-522, after the body of mode 'before'.
processBatchSplice(t, p) ==
  LET batch == t.pendingSubtasks IN
  IF Len(batch) > 0
  THEN LET t1 == executeSubtasks([t EXCEPT !.pendingSubtasks = <<>>], batch) IN
       [t1 EXCEPT !.procs[p].pc = "pb_subs", !.procs[p].batch = batch]
  ELSE processBatchEnd(t, p)

\* ------------------------------------------------------------ readiness
\* The promise invocation p is suspended on has settled.
Ready(t, p) ==
  LET pr == t.procs[p] IN
  CASE pr.pc \in {"pb_main", "cp_main_before", "cp_main_after", "ae_main"} ->
         IF pr.own THEN t.mainRun \in {"ok", "failed"} ELSE TRUE
    [] pr.pc \in {"pb_subs", "cp_subs"} -> RunOutcome(t, pr.batch) # "pending"
    [] pr.pc \in {"cp_pp", "ae_pb", "ae_pp"} -> pr.ref.st \in {"resolved", "rejected"}
    [] OTHER -> FALSE

\* No microtask is waiting: timer callbacks may run.
MacrotaskTurn == \A p \in Slots : ~Ready(TaskRec, p)

\* get subtaskCount, lines 371-374.
subtaskCount(t) == Len(t.pendingSubtasks) + Len(t.executedSubtasks)

\* ------------------------------------------------------------- Task.add
\* add(config) for one config with a title; id is the new subtask.
add(t, id) ==
  IF t.isShuttingDown THEN t
  ELSE IF t.state = "completed" \/ t.state = "failed" THEN t
  ELSE LET t1 == notifySubtaskListeners(
                   [t EXCEPT !.pendingSubtasks = Append(@, id), !.sub[id] = "pending"])
           t2 == resetAutoExecuteTimer(t1)
           t3 == clearAutoCompleteTimer(t2)
       IN triggerProcessing(t3)

Add ==
  /\ nAdded < MaxSubtasks
  /\ SetTask(add(TaskRec, nAdded + 1))
  /\ nAdded' = nAdded + 1
  /\ UNCHANGED <<qvars, xvars, cfg, completeCalls, shutdownCalls>>

\* The callback of configs.map, lines 252-257, for a config with a title.
addedSubtask(t, id) ==
  notifySubtaskListeners([t EXCEPT !.pendingSubtasks = Append(@, id), !.sub[id] = "pending"])

\* configs.map over the configs from the k-th on; titled[k] tells whether
\* config k has a title, and the Subtask constructor throws on one that
\* has none (lines 46-49), which ends the map and add().
RECURSIVE mapConfigs(_, _, _, _)
mapConfigs(t, first, titled, k) ==
  IF k > Len(titled) THEN [t |-> t, threw |-> FALSE]
  ELSE IF ~titled[k] THEN [t |-> t, threw |-> TRUE]
  ELSE mapConfigs(addedSubtask(t, first + k - 1), first, titled, k + 1)

\* add(list): config k of the list is about subtask first + k - 1.
addList(t, first, titled) ==
  IF t.isShuttingDown THEN [t |-> t, threw |-> FALSE]
  ELSE IF t.state = "completed" \/ t.state = "failed" THEN [t |-> t, threw |-> FALSE]
  ELSE IF Len(titled) = 0 THEN [t |-> t, threw |-> FALSE]
  ELSE LET m == mapConfigs(t, first, titled, 1) IN
       IF m.threw THEN m
       ELSE [t |-> triggerProcessing(clearAutoCompleteTimer(resetAutoExecuteTimer(m.t))),
             threw |-> FALSE]

\* The lists of configs add() is called with.
ConfigLists(n) == UNION {[1..len -> BOOLEAN] : len \in 0..n}

AddList ==
  /\ \E titled \in ConfigLists(MaxSubtasks - nAdded) :
       LET a == addList(TaskRec, nAdded + 1, titled) IN
         /\ SetTask(a.t)
         /\ nAdded' = nAdded + Len(titled)
         /\ addThrows' = IF a.threw THEN addThrows + 1 ELSE addThrows
  /\ UNCHANGED <<qvars, ivars, ovars, lvars, svars, cfg, completeCalls, shutdownCalls>>

\* -------------------------------------------------------- Task.complete
\* complete() lines 294-300.
completeFinalize(t, p) ==
  LET t1 == IF t.state # "failed"
            THEN completionResolve(setState(t, "completed"))
            ELSE t
  IN Settle([t1 EXCEPT !.completeReturned[t.procs[p].call] = "adopted"], p, ResolvedP)

\* complete() lines 289-292.
completeWait(t, p) ==
  IF t.processingPromise # NullP
  THEN [t EXCEPT !.procs[p].pc = "cp_pp", !.procs[p].ref = t.processingPromise,
                 !.procs[p].batch = <<>>]
  ELSE completeFinalize(t, p)

\* #processAll lines 577-590: the loop over the pending buffer, then the
\* body of mode 'after'; when it returns complete() goes on.
processAllLoop(t, p) ==
  IF Len(t.pendingSubtasks) > 0
  THEN LET batch == t.pendingSubtasks
           t1 == executeSubtasks([t EXCEPT !.pendingSubtasks = <<>>], batch)
       IN [t1 EXCEPT !.procs[p].pc = "cp_subs", !.procs[p].batch = batch]
  ELSE IF cfg.mode = "after" /\ ~t.mainTaskExecuted
  THEN LET own == executeMainTaskStarts(t)
           t1 == executeMainTask(t)
       IN [t1 EXCEPT !.procs[p].pc = "cp_main_after", !.procs[p].own = own,
                     !.procs[p].batch = <<>>]
  ELSE completeWait(t, p)

\* #processAll lines 570-575.
processAll(t, p) ==
  IF cfg.mode = "before" /\ ~t.mainTaskExecuted
  THEN LET t1 == setState(t, "processing")
           own == executeMainTaskStarts(t1)
           t2 == executeMainTask(t1)
       IN [t2 EXCEPT !.procs[p].pc = "cp_main_before", !.procs[p].own = own]
  ELSE processAllLoop(t, p)

\* complete() without the early return of lines 276-278.
completeAgain(t, call) ==
  LET t1 == clearAutoCompleteTimer(clearAutoExecuteTimer(
              [t EXCEPT !.isShuttingDown = TRUE]))
      p == FreeSlot(t1)
      t2 == Suspend([t1 EXCEPT !.completeReturned[call] = "pending"], p,
                    [NewProc("CP", "start", <<>>, NullP, FALSE) EXCEPT !.call = call])
  IN IF Len(t2.pendingSubtasks) > 0 \/ ~t2.mainTaskExecuted
     THEN processAll(t2, p)
     ELSE completeWait(t2, p)

\* complete() from its call to its first await (or to its return).
complete(t, call) ==
  IF t.state = "completed" \/ t.state = "failed"
  THEN [t EXCEPT !.completeReturned[call] = "adopted"]
  ELSE LET t1 == clearAutoCompleteTimer(clearAutoExecuteTimer(
                   [t EXCEPT !.isShuttingDown = TRUE]))
           p == FreeSlot(t1)
           t2 == Suspend([t1 EXCEPT !.completeReturned[call] = "pending"], p,
                         [NewProc("CP", "start", <<>>, NullP, FALSE) EXCEPT !.call = call])
       IN IF Len(t2.pendingSubtasks) > 0 \/ ~t2.mainTaskExecuted
          THEN processAll(t2, p)
          ELSE completeWait(t2, p)

Complete ==
  /\ completeCalls < MaxCompleteCalls
  /\ SetTask(complete(TaskRec, completeCalls + 1))
  /\ completeCalls' = completeCalls + 1
  /\ UNCHANGED <<qvars, xvars, cfg, nAdded, shutdownCalls>>

\* An error thrown inside #processAll or by an awaited rejected promise
\* leaves complete() by rejecting the promise it returned.
completeThrows(t, p) ==
  Settle([t EXCEPT !.completeReturned[t.procs[p].call] = "threw"], p, RejectedP)

completeResume(t, p) ==
  LET pr == t.procs[p] IN
  CASE pr.pc = "cp_main_before" ->
         IF pr.own /\ MainThrew(t) THEN completeThrows(t, p) ELSE processAllLoop(t, p)
    [] pr.pc = "cp_subs" ->
         IF RunOutcome(t, pr.batch) = "rejected" THEN completeThrows(t, p)
         ELSE processAllLoop([t EXCEPT !.executedSubtasks = @ \o pr.batch], p)
    [] pr.pc = "cp_main_after" ->
         IF pr.own /\ MainThrew(t) THEN completeThrows(t, p) ELSE completeWait(t, p)
    [] pr.pc = "cp_pp" ->
         IF pr.ref.st = "rejected" THEN completeThrows(t, p)
         ELSE completeFinalize(t, p)

CompleteResume ==
  \E p \in Slots :
    /\ procs[p].kind = "CP"
    /\ Ready(TaskRec, p)
    /\ SetTask(completeResume(TaskRec, p))
    /\ UNCHANGED <<qvars, xvars, cfg, nAdded, completeCalls, shutdownCalls>>

\* --------------------------------------------------- Task.forceShutdown
\* forceShutdown without lines 313-314: the idle timers stay armed.
forceShutdownKeepsTimers(t, reason) ==
  IF t.state = "completed" THEN t
  ELSE completionReject(setState([t EXCEPT !.isShuttingDown = TRUE], "failed"), reason)

forceShutdown(t, reason) ==
  IF t.state = "completed" THEN t
  ELSE LET t1 == clearAutoCompleteTimer(clearAutoExecuteTimer(
                   [t EXCEPT !.isShuttingDown = TRUE]))
       IN completionReject(setState(t1, "failed"), reason)

ForceShutdown ==
  /\ Len(shutdownCalls) < MaxShutdownCalls
  /\ \E reason \in Reasons :
       /\ SetTask(forceShutdown(TaskRec, reason))
       /\ shutdownCalls' = Append(shutdownCalls, reason)
  /\ UNCHANGED <<qvars, xvars, cfg, nAdded, completeCalls>>

\* ------------------------------------------------- #processBatch, resumed
processBatchResume(t, p) ==
  LET pr == t.procs[p] IN
  CASE pr.pc = "pb_main" ->
         IF pr.own /\ MainThrew(t) THEN processBatchCatch(t, p, "error")
         ELSE processBatchSplice(t, p)
    [] pr.pc = "pb_subs" ->
         IF RunOutcome(t, pr.batch) = "rejected"
         THEN processBatchCatch([t EXCEPT !.procs[p].batch = <<>>], p, "error")
         ELSE processBatchEnd([t EXCEPT !.executedSubtasks = @ \o pr.batch,
                                        !.procs[p].batch = <<>>], p)

ProcessBatchResume ==
  \E p \in Slots :
    /\ procs[p].kind = "PB"
    /\ Ready(TaskRec, p)
    /\ SetTask(processBatchResume(TaskRec, p))
    /\ UNCHANGED <<qvars, xvars, cfg, nAdded, completeCalls, shutdownCalls>>

\* ------------------------------------------------------ debounce timer
\* The setTimeout callback of #scheduleProcessing, lines 488-492.
debounceCallback(t) ==
  LET t1 == [t EXCEPT !.debounceTimers = @ - 1] IN
  IF ~t1.isProcessing /\ Len(t1.pendingSubtasks) > 0
  THEN LET t2 == processBatch(t1) IN [t2 EXCEPT !.processingPromise = t2.ret]
  ELSE t1

DebounceFire ==
  /\ debounceTimers > 0
  /\ MacrotaskTurn
  /\ SetTask(debounceCallback(TaskRec))
  /\ UNCHANGED <<qvars, xvars, cfg, nAdded, completeCalls, shutdownCalls>>

\* --------------------------------------------------- autoExecute timer
\* Callback lines 682-687: the body, then the autoComplete timer.
autoExecuteMain(t, p) ==
  LET t1 == setState(t, "processing")
      own == executeMainTaskStarts(t1)
      t2 == executeMainTask(t1)
  IN [t2 EXCEPT !.procs[p].pc = "ae_main", !.procs[p].own = own]

\* Callback lines 688-692.
autoExecuteCatch(t, p, err) ==
  Settle(completionReject(setState(t, "failed"), err), p, ResolvedP)

\* The setTimeout callback of #resetAutoExecuteTimer from its start to its
\* first await, lines 669-684.
autoExecuteCallback(t) ==
  LET t1 == [t EXCEPT !.autoExecuteTimer = "fired"] IN
  IF cfg.mode = "after" /\ ~t1.mainTaskExecuted /\ ~t1.isShuttingDown
  THEN IF Len(t1.pendingSubtasks) > 0
       THEN LET t2 == processBatch(t1) IN
            Suspend(t2, FreeSlot(t2), NewProc("AE", "ae_pb", <<>>, t2.ret, FALSE))
       ELSE LET p == FreeSlot(t1) IN
            autoExecuteMain(Suspend(t1, p, NewProc("AE", "start", <<>>, NullP, FALSE)), p)
  ELSE t1

AutoExecuteFire ==
  /\ autoExecuteTimer = "armed"
  /\ MacrotaskTurn
  /\ SetTask(autoExecuteCallback(TaskRec))
  /\ UNCHANGED <<qvars, xvars, cfg, nAdded, completeCalls, shutdownCalls>>

autoExecuteResume(t, p) ==
  LET pr == t.procs[p] IN
  CASE pr.pc = "ae_pb" ->
         IF pr.ref.st = "rejected" THEN autoExecuteCatch(t, p, "error")
         ELSE IF t.processingPromise # NullP
         THEN [t EXCEPT !.procs[p].pc = "ae_pp", !.procs[p].ref = t.processingPromise]
         ELSE autoExecuteMain(t, p)
    [] pr.pc = "ae_pp" ->
         IF pr.ref.st = "rejected" THEN autoExecuteCatch(t, p, "error")
         ELSE autoExecuteMain(t, p)
    [] pr.pc = "ae_main" ->
         IF pr.own /\ MainThrew(t) THEN autoExecuteCatch(t, p, "error")
         ELSE Settle(startAutoCompleteTimer(t), p, ResolvedP)

AutoExecuteResume ==
  \E p \in Slots :
    /\ procs[p].kind = "AE"
    /\ Ready(TaskRec, p)
    /\ SetTask(autoExecuteResume(TaskRec, p))
    /\ UNCHANGED <<qvars, xvars, cfg, nAdded, completeCalls, shutdownCalls>>

\* -------------------------------------------------- autoComplete timer
\* The setTimeout callback of #startAutoCompleteTimer, lines 729-736.
autoCompleteCallback(t) ==
  LET t1 == [t EXCEPT !.autoCompleteTimer = "fired"] IN
  IF Len(t1.pendingSubtasks) = 0 /\ ~t1.isShuttingDown
  THEN completionResolve(setState([t1 EXCEPT !.isShuttingDown = TRUE], "completed"))
  ELSE t1

AutoCompleteFire ==
  /\ autoCompleteTimer = "armed"
  /\ MacrotaskTurn
  /\ SetTask(autoCompleteCallback(TaskRec))
  /\ UNCHANGED <<qvars, xvars, cfg, nAdded, completeCalls, shutdownCalls>>

\* ------------------------------------------------------------ renderer
\* The batch, submitted and not yet left by its invocation, that holds id.
BatchOf(t, id) ==
  LET ps == {p \in Slots :
               \E k \in 1..Len(t.procs[p].batch) : t.procs[p].batch[k] = id}
  IN IF ps = {} THEN <<>> ELSE t.procs[CHOOSE p \in ps : TRUE].batch

IndexIn(batch, id) == CHOOSE k \in 1..Len(batch) : batch[k] = id

\* The renderer is done with subtask id (ok, or failed).  In a sequential
\* list it then starts the next task, or with exitOnError drops the rest.
subtaskSettles(t, id, ok) ==
  LET t1 == [t EXCEPT !.sub[id] = IF ok THEN "done" ELSE "failed"]
      batch == BatchOf(t, id)
  IN IF cfg.concurrent \/ batch = <<>> THEN t1
     ELSE LET k == IndexIn(batch, id) IN
          IF ~ok /\ cfg.exitOnError
          THEN [t1 EXCEPT !.sub = [i \in SubIds |->
                  IF \E j \in (k + 1)..Len(batch) : batch[j] = i THEN "aborted" ELSE @[i]]]
          ELSE IF k < Len(batch) THEN [t1 EXCEPT !.sub[batch[k + 1]] = "running"]
          ELSE t1

\* The wrapper of _toListrTask, lines 126-143, when the executor of subtask
\* id ends: a throw fails the subtask; otherwise it is marked executed and
\* the children listed in its definition are run as a nested sequential list.
subtaskEnds(t, id, ok) ==
  IF ~ok THEN subtaskSettles(t, id, FALSE)
  ELSE LET t1 == [t EXCEPT !.executed[id] = TRUE] IN
       IF t1.listed[id] > 0
       THEN [t1 EXCEPT !.sub[id] = "children", !.children[id][1] = "running"]
       ELSE subtaskSettles(t1, id, TRUE)

SubtaskEnds ==
  \E id \in SubIds, ok \in BOOLEAN :
    /\ sub[id] = "running"
    /\ SetTask(subtaskEnds(TaskRec, id, ok))
    /\ UNCHANGED <<qvars, xvars, cfg, nAdded, completeCalls, shutdownCalls>>

\* Child k of subtask id ends: the nested list (exitOnError defaults to
\* true) goes on with the next listed child, or settles the subtask.
childEnds(t, id, k, ok) ==
  LET t1 == [t EXCEPT !.children[id][k] = IF ok THEN "done" ELSE "failed"] IN
  IF ~ok
  THEN subtaskSettles([t1 EXCEPT !.children[id] = [j \in 1..Len(@) |->
                         IF j > k /\ j <= t.listed[id] THEN "aborted" ELSE @[j]]],
                      id, FALSE)
  ELSE IF k < t.listed[id] THEN [t1 EXCEPT !.children[id][k + 1] = "running"]
  ELSE subtaskSettles(t1, id, TRUE)

ChildEnds ==
  \E id \in SubIds, k \in 1..MaxChildren, ok \in BOOLEAN :
    /\ k <= Len(children[id])
    /\ children[id][k] = "running"
    /\ SetTask(childEnds(TaskRec, id, k, ok))
    /\ UNCHANGED <<qvars, xvars, cfg, nAdded, completeCalls, shutdownCalls>>

\* Subtask.add(config) on the handle Task.add returned for subtask id: null
\* once the subtask is executed, otherwise a new child.
subtaskAdd(t, id) ==
  IF t.executed[id] THEN t
  ELSE [t EXCEPT !.children[id] = Append(@, "added")]

SubtaskAdd ==
  \E id \in SubIds :
    /\ sub[id] # "none"
    /\ Len(children[id]) < MaxChildren
    /\ ~executed[id]
    /\ SetTask(subtaskAdd(TaskRec, id))
    /\ UNCHANGED <<qvars, xvars, cfg, nAdded, completeCalls, shutdownCalls>>

\* The Task's own body ends.
MainTaskEnds ==
  \E ok \in BOOLEAN :
    /\ mainRun = "running"
    /\ mainRun' = IF ok THEN "ok" ELSE "failed"
    /\ UNCHANGED <<qvars, xvars, cfg, pendingSubtasks, executedSubtasks, state, isShuttingDown,
                   isProcessing, mainTaskExecuted, completion, completionError,
                   autoCompleteTimer, autoExecuteTimer, processingPromise,
                   debounceTimers, procs, sub, children, listed, executed,
                   mainStarts, nAdded, notified, completeCalls, completeReturned,
                   shutdownCalls>>

\* =================================================== DynamicTaskQueue
\* The mutable fields of the queue as one record (ret: the promise returned
\* by the #processQueue call just made).
QueueRec ==
  [ taskBuffer |-> taskBuffer, qstate |-> qstate, qIsShuttingDown |-> qIsShuttingDown,
    qProcessingPromise |-> qProcessingPromise, tasksProcessed |-> tasksProcessed,
    tasksFailed |-> tasksFailed, pipelineAlive |-> pipelineAlive, window |-> window,
    qprocs |-> qprocs, task |-> task, taskPromise |-> taskPromise,
    taskError |-> taskError, qCompleteReturned |-> qCompleteReturned, ret |-> NullP ]

SetQueue(q) ==
  /\ taskBuffer' = q.taskBuffer
  /\ qstate' = q.qstate
  /\ qIsShuttingDown' = q.qIsShuttingDown
  /\ qProcessingPromise' = q.qProcessingPromise
  /\ tasksProcessed' = q.tasksProcessed
  /\ tasksFailed' = q.tasksFailed
  /\ pipelineAlive' = q.pipelineAlive
  /\ window' = q.window
  /\ qprocs' = q.qprocs
  /\ task' = q.task
  /\ taskPromise' = q.taskPromise
  /\ taskError' = q.taskError
  /\ qCompleteReturned' = q.qCompleteReturned

\* new DynamicTaskQueue(options): concurrent and exitOnError default to false.
QConfigs == [concurrent : BOOLEAN, exitOnError : BOOLEAN]

QFreeSlot(q) == CHOOSE p \in QSlots :
  /\ q.qprocs[p].kind = "none"
  /\ \A r \in QSlots : r < p => q.qprocs[r].kind # "none"

QSuspend(q, p, pr) == [q EXCEPT !.qprocs[p] = pr]

QSettle(q, p, outcome) ==
  [q EXCEPT !.qprocs = [r \in QSlots |->
                          IF r = p THEN NoProc
                          ELSE IF @[r].ref = PendingP(p) THEN [@[r] EXCEPT !.ref = outcome]
                          ELSE @[r]],
            !.qProcessingPromise = IF @ = PendingP(p) THEN outcome ELSE @]

\* #stateSubject.next(s); an emission of 'completed' settles the
\* firstValueFrom(...) promise of every complete() waiting at lines 275-280.
stateNext(q, s) ==
  [q EXCEPT !.qstate = s,
            !.qprocs = [r \in QSlots |->
               IF s = "completed" /\ @[r].pc = "cq_state"
               THEN [@[r] EXCEPT !.ref = ResolvedP] ELSE @[r]]]

\* The renderer's run() on a batch of the queue, up to its await.
qRun(q, batch) ==
  [q EXCEPT !.task = [i \in TaskIds |->
      IF \E k \in 1..Len(batch) : batch[k] = i
      THEN IF qcfg.concurrent \/ batch[1] = i THEN "running" ELSE "queued"
      ELSE @[i]]]

QRunOutcome(q, batch) ==
  IF qcfg.exitOnError /\ \E k \in 1..Len(batch) : q.task[batch[k]] = "failed"
  THEN "rejected"
  ELSE IF \A k \in 1..Len(batch) : q.task[batch[k]] \in {"done", "failed"}
  THEN "resolved"
  ELSE "pending"

\* #processQueue finally block, lines 177-183, and its return (or throw).
processQueueFinally(q, p, outcome) ==
  LET q1 == IF q.qIsShuttingDown /\ Len(q.taskBuffer) = 0 THEN stateNext(q, "completed")
            ELSE IF ~q.qIsShuttingDown THEN stateNext(q, "idle")
            ELSE q
  IN IF p = 0 THEN [q1 EXCEPT !.ret = outcome] ELSE QSettle(q1, p, outcome)

\* #processQueue while loop, lines 133-161, entered by invocation p (0: the
\* invocation has not been suspended yet).
processQueueLoop(q, p) ==
  IF Len(q.taskBuffer) > 0
  THEN LET batch == q.taskBuffer
           q1 == qRun([q EXCEPT !.taskBuffer = <<>>], batch)
       IN IF p = 0
          THEN LET n == QFreeSlot(q1) IN
               QSuspend([q1 EXCEPT !.ret = PendingP(n)], n,
                        NewProc("PQ", "pq_run", batch, NullP, FALSE))
          ELSE [q1 EXCEPT !.qprocs[p].pc = "pq_run", !.qprocs[p].batch = batch]
  ELSE processQueueFinally(q, p, ResolvedP)

\* #processQueue from its call to its first await (or to its return).
processQueue(q) == processQueueLoop(stateNext(q, "processing"), 0)

\* #processQueue after listr.run() settled, lines 162-175.
processQueueResume(q, p) ==
  LET pr == q.qprocs[p] IN
  CASE pr.pc = "pq_run" ->
         IF QRunOutcome(q, pr.batch) = "rejected"
         THEN processQueueFinally([q EXCEPT !.qprocs[p].batch = <<>>], p, RejectedP)
         ELSE IF ~q.qIsShuttingDown
         THEN [q EXCEPT !.qprocs[p].pc = "pq_delay", !.qprocs[p].batch = <<>>]
         ELSE processQueueLoop([q EXCEPT !.qprocs[p].batch = <<>>], p)
    [] pr.pc = "pq_delay" -> processQueueLoop(q, p)

qTriggerProcessing(q) ==
  IF q.qstate # "processing" /\ Len(q.taskBuffer) > 0
  THEN LET q1 == processQueue(q) IN [q1 EXCEPT !.qProcessingPromise = q1.ret]
  ELSE q

\* The pipeline of #initializeTaskProcessing ends (its source completed or
\* #shutdownSignal fired): bufferTime emits what it holds, the filter and
\* the next handler run, then the complete handler, lines 100-110.
pipelineComplete(q) ==
  IF ~q.pipelineAlive THEN q
  ELSE LET q1 == IF q.window > 0 \/ Len(q.taskBuffer) > 0 THEN qTriggerProcessing(q) ELSE q
           q2 == IF Len(q1.taskBuffer) > 0 THEN qTriggerProcessing(q1) ELSE q1
       IN [q2 EXCEPT !.pipelineAlive = FALSE, !.window = 0]

\* One period of bufferTime(batchDebounceMs) elapses, lines 99-103.
bufferTimeTick(q) ==
  LET q1 == IF q.window > 0 \/ Len(q.taskBuffer) > 0 THEN qTriggerProcessing(q) ELSE q
  IN [q1 EXCEPT !.window = 0]

\* ------------------------------------------------ DynamicTaskQueue.add
qAddAccepts(q) == ~q.qIsShuttingDown /\ q.qstate # "completed"

\* add(title, taskFn): the promise of a refused add is rejected at once.
qAdd(q, id) ==
  IF q.qIsShuttingDown
  THEN [q EXCEPT !.taskPromise[id] = "rejected", !.taskError[id] = "shutting down"]
  ELSE IF q.qstate = "completed"
  THEN [q EXCEPT !.taskPromise[id] = "rejected", !.taskError[id] = "completed"]
  ELSE IF q.pipelineAlive
  THEN [q EXCEPT !.taskPromise[id] = "pending", !.task[id] = "buffered",
                 !.taskBuffer = Append(@, id), !.window = @ + 1]
  ELSE [q EXCEPT !.taskPromise[id] = "pending"]

\* ------------------------------------------- DynamicTaskQueue.complete
\* complete() lines 283-285 and its return.
qCompleteCleanup(q, p) ==
  QSettle([pipelineComplete(q) EXCEPT !.qCompleteReturned[q.qprocs[p].call] = "resolved"],
          p, ResolvedP)

\* complete() lines 273-281.
qCompleteWaitState(q, p) ==
  IF q.qstate # "completed"
  THEN [q EXCEPT !.qprocs[p].pc = "cq_state", !.qprocs[p].ref = PendingP(0)]
  ELSE qCompleteCleanup(q, p)

\* complete() lines 268-271.
qCompleteWaitProcessing(q, p) ==
  IF q.qProcessingPromise # NullP
  THEN [q EXCEPT !.qprocs[p].pc = "cq_pp", !.qprocs[p].ref = q.qProcessingPromise]
  ELSE qCompleteWaitState(q, p)

\* complete() without the early return of lines 253-255.
qCompleteFromAnyState(q, call) ==
  LET q1 == stateNext([q EXCEPT !.qIsShuttingDown = TRUE], "completing")
      q2 == pipelineComplete(q1)
      p == QFreeSlot(q2)
      q3 == QSuspend([q2 EXCEPT !.qCompleteReturned[call] = "pending"], p,
                     [NewProc("CQ", "start", <<>>, NullP, FALSE) EXCEPT !.call = call])
  IN IF Len(q3.taskBuffer) > 0
     THEN LET q4 == processQueue(q3) IN
          IF q4.ret.st = "pending"
          THEN [q4 EXCEPT !.qprocs[p].pc = "cq_pq", !.qprocs[p].ref = q4.ret]
          ELSE qCompleteWaitProcessing(q4, p)
     ELSE qCompleteWaitProcessing(q3, p)

\* complete() from its call to its first await (or to its return).
qComplete(q, call) ==
  IF q.qstate = "completed" THEN [q EXCEPT !.qCompleteReturned[call] = "resolved"]
  ELSE LET q1 == stateNext([q EXCEPT !.qIsShuttingDown = TRUE], "completing")
           q2 == pipelineComplete(q1)
           p == QFreeSlot(q2)
           q3 == QSuspend([q2 EXCEPT !.qCompleteReturned[call] = "pending"], p,
                          [NewProc("CQ", "start", <<>>, NullP, FALSE) EXCEPT !.call = call])
       IN IF Len(q3.taskBuffer) > 0
          THEN LET q4 == processQueue(q3) IN
               IF q4.ret.st = "pending"
               THEN [q4 EXCEPT !.qprocs[p].pc = "cq_pq", !.qprocs[p].ref = q4.ret]
               ELSE qCompleteWaitProcessing(q4, p)
          ELSE qCompleteWaitProcessing(q3, p)

qCompleteThrows(q, p) ==
  QSettle([q EXCEPT !.qCompleteReturned[q.qprocs[p].call] = "threw"], p, RejectedP)

qCompleteResume(q, p) ==
  LET pr == q.qprocs[p] IN
  CASE pr.pc = "cq_pq" ->
         IF pr.ref.st = "rejected" THEN qCompleteThrows(q, p)
         ELSE qCompleteWaitProcessing(q, p)
    [] pr.pc = "cq_pp" ->
         IF pr.ref.st = "rejected" THEN qCompleteThrows(q, p)
         ELSE qCompleteWaitState(q, p)
    [] pr.pc = "cq_state" -> qCompleteCleanup(q, p)

\* -------------------------------------- DynamicTaskQueue.forceShutdown
\* forceShutdown without line 300: the rejected tasks stay in the buffer.
qForceShutdownKeepsBuffer(q, reason) ==
  LET q1 == [q EXCEPT !.qIsShuttingDown = TRUE,
                      !.taskPromise = [i \in TaskIds |->
                         IF (\E k \in 1..Len(q.taskBuffer) : q.taskBuffer[k] = i)
                            /\ @[i] = "pending" THEN "rejected" ELSE @[i]],
                      !.taskError = [i \in TaskIds |->
                         IF (\E k \in 1..Len(q.taskBuffer) : q.taskBuffer[k] = i)
                            /\ q.taskPromise[i] = "pending" THEN reason ELSE @[i]]]
  IN stateNext(pipelineComplete(q1), "completed")

qForceShutdown(q, reason) ==
  LET q1 == [q EXCEPT !.qIsShuttingDown = TRUE,
                      !.taskPromise = [i \in TaskIds |->
                         IF (\E k \in 1..Len(q.taskBuffer) : q.taskBuffer[k] = i)
                            /\ @[i] = "pending" THEN "rejected" ELSE @[i]],
                      !.taskError = [i \in TaskIds |->
                         IF (\E k \in 1..Len(q.taskBuffer) : q.taskBuffer[k] = i)
                            /\ q.taskPromise[i] = "pending" THEN reason ELSE @[i]],
                      !.task = [i \in TaskIds |->
                         IF \E k \in 1..Len(q.taskBuffer) : q.taskBuffer[k] = i
                         THEN "dropped" ELSE @[i]],
                      !.taskBuffer = <<>>]
  IN stateNext(pipelineComplete(q1), "completed")

\* ------------------------------------------------------------ renderer
QBatchOf(q, id) ==
  LET ps == {p \in QSlots :
               \E k \in 1..Len(q.qprocs[p].batch) : q.qprocs[p].batch[k] = id}
  IN IF ps = {} THEN <<>> ELSE q.qprocs[CHOOSE p \in ps : TRUE].batch

\* The task wrapper without line 149: a failure is not counted.
qTaskEndsUncounted(q, id, ok) ==
  LET q1 == IF ok
            THEN [q EXCEPT !.task[id] = "done",
                           !.taskPromise[id] = IF @ = "pending" THEN "resolved" ELSE @,
                           !.tasksProcessed = @ + 1]
            ELSE [q EXCEPT !.task[id] = "failed",
                           !.taskPromise[id] = IF @ = "pending" THEN "rejected" ELSE @,
                           !.taskError[id] = IF q.taskPromise[id] = "pending" THEN "error" ELSE @]
      batch == QBatchOf(q, id)
  IN IF qcfg.concurrent \/ batch = <<>> THEN q1
     ELSE LET k == IndexIn(batch, id) IN
          IF ~ok /\ qcfg.exitOnError
          THEN [q1 EXCEPT !.task = [i \in TaskIds |->
                  IF \E j \in (k + 1)..Len(batch) : batch[j] = i THEN "aborted" ELSE @[i]]]
          ELSE IF k < Len(batch) THEN [q1 EXCEPT !.task[batch[k + 1]] = "running"]
          ELSE q1

\* The task wrapper of #processQueue, lines 142-153, when the executor of
\* task id ends; then the renderer goes on with the list.
qTaskEnds(q, id, ok) ==
  LET q1 == IF ok
            THEN [q EXCEPT !.task[id] = "done",
                           !.taskPromise[id] = IF @ = "pending" THEN "resolved" ELSE @,
                           !.tasksProcessed = @ + 1]
            ELSE [q EXCEPT !.task[id] = "failed",
                           !.tasksFailed = @ + 1,
                           !.taskPromise[id] = IF @ = "pending" THEN "rejected" ELSE @,
                           !.taskError[id] = IF q.taskPromise[id] = "pending" THEN "error" ELSE @]
      batch == QBatchOf(q, id)
  IN IF qcfg.concurrent \/ batch = <<>> THEN q1
     ELSE LET k == IndexIn(batch, id) IN
          IF ~ok /\ qcfg.exitOnError
          THEN [q1 EXCEPT !.task = [i \in TaskIds |->
                  IF \E j \in (k + 1)..Len(batch) : batch[j] = i THEN "aborted" ELSE @[i]]]
          ELSE IF k < Len(batch) THEN [q1 EXCEPT !.task[batch[k + 1]] = "running"]
          ELSE q1

\* ------------------------------------------------------------- actions
QReady(q, p) ==
  LET pr == q.qprocs[p] IN
  CASE pr.pc = "pq_run" -> QRunOutcome(q, pr.batch) # "pending"
    [] pr.pc \in {"cq_pq", "cq_pp", "cq_state"} -> pr.ref.st \in {"resolved", "rejected"}
    [] OTHER -> FALSE

QMacrotaskTurn == \A p \in QSlots : ~QReady(QueueRec, p)

QAdd ==
  /\ qAdded < MaxTasks
  /\ SetQueue(qAdd(QueueRec, qAdded + 1))
  /\ qAdded' = qAdded + 1
  /\ sinceAdd' = IF qAddAccepts(QueueRec) THEN "within" ELSE sinceAdd
  /\ UNCHANGED <<tvars, xvars, qcfg, qCompleteCalls, qShutdownCalls>>

QComplete ==
  /\ qCompleteCalls < MaxQCompleteCalls
  /\ SetQueue(qComplete(QueueRec, qCompleteCalls + 1))
  /\ qCompleteCalls' = qCompleteCalls + 1
  /\ UNCHANGED <<tvars, xvars, qcfg, qAdded, sinceAdd, qShutdownCalls>>

QCompleteResume ==
  \E p \in QSlots :
    /\ qprocs[p].kind = "CQ"
    /\ QReady(QueueRec, p)
    /\ SetQueue(qCompleteResume(QueueRec, p))
    /\ UNCHANGED <<tvars, xvars, qcfg, qAdded, sinceAdd, qCompleteCalls, qShutdownCalls>>

QForceShutdown ==
  /\ Len(qShutdownCalls) < MaxQShutdownCalls
  /\ \E reason \in Reasons :
       /\ SetQueue(qForceShutdown(QueueRec, reason))
       /\ qShutdownCalls' = Append(qShutdownCalls, reason)
  /\ UNCHANGED <<tvars, xvars, qcfg, qAdded, sinceAdd, qCompleteCalls>>

BufferTimeTick ==
  /\ pipelineAlive
  /\ QMacrotaskTurn
  /\ SetQueue(bufferTimeTick(QueueRec))
  /\ UNCHANGED <<tvars, xvars, qcfg, qAdded, sinceAdd, qCompleteCalls, qShutdownCalls>>

ProcessQueueResume ==
  \E p \in QSlots :
    /\ qprocs[p].kind = "PQ"
    /\ QReady(QueueRec, p)
    /\ SetQueue(processQueueResume(QueueRec, p))
    /\ UNCHANGED <<tvars, xvars, qcfg, qAdded, sinceAdd, qCompleteCalls, qShutdownCalls>>

\* The setTimeout of #delay, line 174, fires.
DelayFire ==
  \E p \in QSlots :
    /\ qprocs[p].pc = "pq_delay"
    /\ QMacrotaskTurn
    /\ SetQueue(processQueueResume(QueueRec, p))
    /\ UNCHANGED <<tvars, xvars, qcfg, qAdded, sinceAdd, qCompleteCalls, qShutdownCalls>>

\* batchDebounceMs go by without an add().
DebounceElapses ==
  /\ sinceAdd = "within"
  /\ sinceAdd' = "past"
  /\ UNCHANGED <<tvars, xvars, qcfg, taskBuffer, qstate, qIsShuttingDown, qProcessingPromise,
                 tasksProcessed, tasksFailed, pipelineAlive, window, qprocs, task,
                 taskPromise, taskError, qAdded, qCompleteCalls, qCompleteReturned,
                 qShutdownCalls>>

QTaskEnds ==
  \E id \in TaskIds, ok \in BOOLEAN :
    /\ task[id] = "running"
    /\ SetQueue(qTaskEnds(QueueRec, id, ok))
    /\ UNCHANGED <<tvars, xvars, qcfg, qAdded, sinceAdd, qCompleteCalls, qShutdownCalls>>

\* ============================ DynamicTaskQueue with subtasks: one item
StaticIds == 1..MaxStatic

\* options.subtaskMode as the caller gives it ("unset": not given).
ModeOpts == {"before", "after", "only", "wrap", "unset"}

\* add(title, taskFn, options), lines 437-450: the definition is built from
\* the arguments as they are.
itemAdd(taskFn, subtasks, subtaskMode, concurrent, exitOnError) ==
  [ executor |-> taskFn, subtasks |-> subtasks, subtaskMode |-> subtaskMode,
    concurrent |-> concurrent, exitOnError |-> exitOnError ]

\* addWithSubtasks(title, subtasks, options): subtaskMode defaults to 'only'
\* and is 'only' whenever options.task is absent.
addWithSubtasks(subtasks, taskFn, subtaskMode, concurrent, exitOnError) ==
  LET mode == IF subtaskMode = "unset" THEN "only" ELSE subtaskMode IN
  itemAdd(taskFn, subtasks, IF taskFn # "none" THEN mode ELSE "only", concurrent, exitOnError)

\* addTask(definition): subtaskMode defaults to 'after'.
addTask(taskFn, subtasks, subtaskMode, concurrent, exitOnError) ==
  itemAdd(taskFn, subtasks, IF subtaskMode = "unset" THEN "after" ELSE subtaskMode,
          concurrent, exitOnError)

\* The definitions the three entry points build.
ItemDefs ==
  LET Args == [ taskFn : {"none", "plain", "listr"}, subtasks : 0..MaxStatic,
                subtaskMode : ModeOpts, concurrent : BOOLEAN, exitOnError : BOOLEAN ]
  IN {itemAdd(a.taskFn, a.subtasks, a.subtaskMode, a.concurrent, a.exitOnError) : a \in Args}
       \cup {addWithSubtasks(a.subtasks, a.taskFn, a.subtaskMode, a.concurrent, a.exitOnError) :
               a \in Args}
       \cup {addTask(a.taskFn, a.subtasks, a.subtaskMode, a.concurrent, a.exitOnError) :
               a \in Args}

\* #buildTaskExecutor line 259 and lines 263-264.
subtaskModeOf(def) == IF def.subtaskMode = "unset" THEN "after" ELSE def.subtaskMode
hasSubtasks(def) == def.subtasks > 0
hasExecutor(def) == def.executor # "none"

ItemRec ==
  [ xpc |-> xpc, bodyRun |-> bodyRun, xsub |-> xsub, dynTree |-> dynTree,
    xTask |-> xTask, xAttempts |-> xAttempts, xPromise |-> xPromise,
    xProcessed |-> xProcessed, xFailed |-> xFailed ]

SetItem(x) ==
  /\ xpc' = x.xpc
  /\ bodyRun' = x.bodyRun
  /\ xsub' = x.xsub
  /\ dynTree' = x.dynTree
  /\ xTask' = x.xTask
  /\ xAttempts' = x.xAttempts
  /\ xPromise' = x.xPromise
  /\ xProcessed' = x.xProcessed
  /\ xFailed' = x.xFailed

\* The renderer starts a list built by #buildSubtaskArray from the static
\* subtasks: the first one, or all of them when concurrent.
runSubtaskArray(x) ==
  [x EXCEPT !.xsub = [k \in StaticIds |->
      IF k <= taskDef.subtasks
      THEN IF taskDef.concurrent \/ k = 1 THEN "running" ELSE "queued"
      ELSE @[k]]]

\* Settlement of run() on the list of static subtasks.
SubtasksOutcome(x) ==
  IF taskDef.exitOnError /\ \E k \in 1..taskDef.subtasks : x.xsub[k] = "failed"
  THEN "rejected"
  ELSE IF \A k \in 1..taskDef.subtasks : x.xsub[k] \in {"done", "failed"}
  THEN "resolved"
  ELSE "pending"

\* taskDef.resolve / taskDef.reject: a settled promise stays as it is.
settle(x, outcome) ==
  IF x.xPromise = "pending" THEN [x EXCEPT !.xPromise = outcome] ELSE x

\* The item's task has failed in the renderer (its wrapper threw, or the
\* Listr it returned failed): the renderer calls the wrapper again while
\* retries are left (line 335), and fails the item otherwise.
rendererTaskFails(x) ==
  IF x.xAttempts <= listrRetry
  THEN [x EXCEPT !.xTask = "retrying", !.bodyRun = "none", !.dynTree = "none",
                 !.xsub = [k \in StaticIds |-> "none"]]
  ELSE [x EXCEPT !.xTask = "failed"]

\* The task wrapper of #processQueue, lines 344-348: the combined executor threw.
wrapperCatch(x) ==
  rendererTaskFails(settle([x EXCEPT !.xpc = "threw", !.xFailed = @ + 1], "rejected"))

\* The task wrapper, lines 340-343: the combined executor returned result
\* ("none": no Listr; "static": the Listr of the static subtasks; "dynamic":
\* the Listr the body returned).  The wrapper returns it to the renderer,
\* which runs a Listr as the item's sub-tree.
wrapperReturns(x, result) ==
  LET x1 == settle([x EXCEPT !.xpc = "returned", !.xProcessed = @ + 1], "resolved") IN
  CASE result = "static" -> runSubtaskArray(x1)
    [] result = "dynamic" -> [x1 EXCEPT !.dynTree = "running"]
    [] OTHER -> [x1 EXCEPT !.xTask = "done"]

\* #buildTaskExecutor lines 300-310: after the body.
executorAfterBody(x) ==
  IF subtaskModeOf(taskDef) \in {"after", "wrap"} /\ hasSubtasks(taskDef)
  THEN runSubtaskArray([x EXCEPT !.xpc = "subs_after"])
  ELSE wrapperReturns(x, "none")

\* #buildTaskExecutor lines 290-292: the body is called.
executorBody(x) ==
  IF hasExecutor(taskDef)
  THEN [x EXCEPT !.xpc = "body", !.bodyRun = "running"]
  ELSE executorAfterBody(x)

\* The combined executor of #buildTaskExecutor from its call by the
\* renderer to its first await (or to its return), lines 261-292.
buildTaskExecutor(x) ==
  LET x1 == [x EXCEPT !.xTask = "running", !.xpc = "idle", !.xAttempts = @ + 1] IN
  IF ~hasSubtasks(taskDef) /\ ~hasExecutor(taskDef) THEN wrapperReturns(x1, "none")
  ELSE IF subtaskModeOf(taskDef) = "only" /\ hasSubtasks(taskDef)
  THEN wrapperReturns(x1, "static")
  ELSE IF subtaskModeOf(taskDef) = "before" /\ hasSubtasks(taskDef)
  THEN runSubtaskArray([x1 EXCEPT !.xpc = "subs_before"])
  ELSE executorBody(x1)

\* The renderer runs the item.
ExecutorStarts ==
  /\ xTask \in {"waiting", "retrying"}
  /\ SetItem(buildTaskExecutor(ItemRec))
  /\ UNCHANGED <<tvars, qvars, taskDef, listrRetry, nvars>>

\* The same without lines 295-297: a Listr the body returns is not returned
\* at once.
executorBodyEndsKeepsOn(x, ok) ==
  IF ~ok THEN wrapperCatch([x EXCEPT !.bodyRun = "failed"])
  ELSE executorAfterBody([x EXCEPT !.bodyRun = "ok"])

\* The body ends and the combined executor goes on, lines 292-298.
executorBodyEnds(x, ok) ==
  IF ~ok THEN wrapperCatch([x EXCEPT !.bodyRun = "failed"])
  ELSE LET x1 == [x EXCEPT !.bodyRun = "ok"] IN
       IF taskDef.executor = "listr" THEN wrapperReturns(x1, "dynamic")
       ELSE executorAfterBody(x1)

ExecutorBodyEnds ==
  \E ok \in BOOLEAN :
    /\ bodyRun = "running"
    /\ SetItem(executorBodyEnds(ItemRec, ok))
    /\ UNCHANGED <<tvars, qvars, taskDef, listrRetry, nvars>>

\* The renderer is done with static subtask k; the list goes on, and when
\* its run() settles the code waiting for it goes on: the combined executor
\* (lines 283-288, 303-310) or, for the Listr the wrapper returned, the
\* renderer, which ends the item.
staticSubtaskEnds(x, k, ok) ==
  LET x1 == [x EXCEPT !.xsub[k] = IF ok THEN "done" ELSE "failed"]
      x2 == IF taskDef.concurrent THEN x1
            ELSE IF ~ok /\ taskDef.exitOnError
            THEN [x1 EXCEPT !.xsub = [j \in StaticIds |->
                    IF j > k /\ j <= taskDef.subtasks THEN "aborted" ELSE @[j]]]
            ELSE IF k < taskDef.subtasks THEN [x1 EXCEPT !.xsub[k + 1] = "running"]
            ELSE x1
      outcome == SubtasksOutcome(x2)
  IN
  IF outcome = "pending" THEN x2
  ELSE CASE x2.xpc = "subs_before" ->
              IF outcome = "rejected" THEN wrapperCatch(x2) ELSE executorBody(x2)
         [] x2.xpc = "subs_after" ->
              IF outcome = "rejected" THEN wrapperCatch(x2) ELSE wrapperReturns(x2, "none")
         [] x2.xpc = "returned" /\ x2.xTask = "running" ->
              IF outcome = "rejected" THEN rendererTaskFails(x2)
              ELSE [x2 EXCEPT !.xTask = "done"]
         [] OTHER -> x2

StaticSubtaskEnds ==
  \E k \in StaticIds, ok \in BOOLEAN :
    /\ xsub[k] = "running"
    /\ SetItem(staticSubtaskEnds(ItemRec, k, ok))
    /\ UNCHANGED <<tvars, qvars, taskDef, listrRetry, nvars>>

\* The renderer is done with the Listr the body returned.
DynamicTreeEnds ==
  \E ok \in BOOLEAN :
    /\ dynTree = "running"
    /\ SetItem(IF ok THEN [ItemRec EXCEPT !.dynTree = "done", !.xTask = "done"]
               ELSE rendererTaskFails([ItemRec EXCEPT !.dynTree = "failed"]))
    /\ UNCHANGED <<tvars, qvars, taskDef, listrRetry, nvars>>

\* An item the renderer has not started.
ItemInit ==
  /\ xpc = "idle"
  /\ bodyRun = "none"
  /\ xsub = [k \in StaticIds |-> "none"]
  /\ dynTree = "none"
  /\ xTask = "waiting"
  /\ xAttempts = 0
  /\ xPromise = "pending"
  /\ xProcessed = 0
  /\ xFailed = 0

\* The programs below that add no item with subtasks.
NoItem ==
  /\ taskDef = itemAdd("none", 0, "unset", FALSE, TRUE)
  /\ listrRetry = 0
  /\ ItemInit

\* ================== DynamicTaskQueue with subtasks: options of the lists
\* A key of an options object holds true or false, holds undefined
\* ({ concurrent: undefined }), or is absent from the object.
OptValues == {"true", "false", "undefined", "absent"}
Options == [concurrent : OptValues, exitOnError : OptValues]
NoOptions == [concurrent |-> "absent", exitOnError |-> "absent"]

\* { ...a, ...b }: every key b has, whatever it holds, overrides that of a.
spread(a, b) ==
  [ concurrent |-> IF b.concurrent # "absent" THEN b.concurrent ELSE a.concurrent,
    exitOnError |-> IF b.exitOnError # "absent" THEN b.exitOnError ELSE a.exitOnError ]

\* a ?? b: b when a is undefined (reading an absent key gives undefined).
nullish(a, b) == IF a \in {"undefined", "absent"} THEN b ELSE a

\* The constructor, lines 120-128: #defaultSubtaskOptions.
defaultSubtaskOptions(given) ==
  spread([concurrent |-> "false", exitOnError |-> "true"], given)

\* #buildSubtaskArray line 189: the options its items are built with.
buildSubtaskArray(options) == spread(defaultSubtaskOptions(queueDefaults), options)

\* #buildTaskExecutor lines 272-277 (and 282-287, 302-307): the options the
\* list of the item's subtasks is run with.
itemListOptions(subtaskOptions) ==
  LET d == defaultSubtaskOptions(queueDefaults) IN
  [ concurrent |-> nullish(subtaskOptions.concurrent, d.concurrent),
    exitOnError |-> nullish(subtaskOptions.exitOnError, d.exitOnError) ]

\* #buildSubtaskItem line 225: childOptions, which the nested list is run
\* with (lines 236-240).
childOptions(parent, nestedOptions) == spread(parent, nestedOptions)

\* The renderer runs the item: the list of its subtasks is built and run.
RunItemList ==
  /\ policies = <<>>
  /\ Len(optionsPath) >= 1
  /\ policies' = <<itemListOptions(optionsPath[1])>>
  /\ parentOptions' = buildSubtaskArray(optionsPath[1])
  /\ UNCHANGED <<tvars, qvars, ivars, lvars, svars, addThrows, queueDefaults, optionsPath>>

\* The renderer runs the subtask on the path at the next depth: the list of
\* its nested subtasks is built and run.
RunNestedList ==
  /\ Len(policies) >= 1
  /\ Len(policies) < Len(optionsPath)
  /\ LET c == childOptions(parentOptions, optionsPath[Len(policies) + 1]) IN
       /\ policies' = Append(policies, c)
       /\ parentOptions' = buildSubtaskArray(c)
  /\ UNCHANGED <<tvars, qvars, ivars, lvars, svars, addThrows, queueDefaults, optionsPath>>

\* No list of subtasks is built.
NoPolicy ==
  /\ queueDefaults = NoOptions
  /\ optionsPath = <<>>
  /\ parentOptions = NoOptions
  /\ policies = <<>>

\* ================================================ Task: state$ / subtasks$
\* What a subscribed callback does when it is called on a change: it
\* returns, it throws, or it calls the unsubscribe function it was given.
Behaviours == {"returns", "throws", "unsubscribes"}

\* The unsubscribe function, lines 331-336 and 351-356: splice at indexOf.
unsubscribe(ls, id) == SelectSeq(ls, LAMBDA l : l.id # id)

\* Array.prototype.forEach over a listener array with the callbacks of
\* lines 437-443 and 452-458: indices k..len of the array as it is when
\* they are reached; an exception of a callback is caught and logged.
RECURSIVE forEach(_, _, _, _, _)
forEach(ls, k, len, arg, calls) ==
  IF k > len \/ k > Len(ls) THEN [listeners |-> ls, calls |-> calls]
  ELSE LET cb == ls[k] IN
       forEach(IF cb.does = "unsubscribes" THEN unsubscribe(ls, cb.id) ELSE ls,
               k + 1, len, arg, Append(calls, <<cb.id, arg>>))

\* #setState lines 434-445 on the listeners: the calls made and the array
\* afterwards.
setStateListeners(ls, old, new) ==
  IF old # new THEN forEach(ls, 1, Len(ls), new, <<>>)
  ELSE [listeners |-> ls, calls |-> <<>>]

\* state$(callback), lines 325-338.
StateSubscribe ==
  /\ nListeners < MaxListeners
  /\ \E does \in Behaviours :
       /\ stateListeners' = Append(stateListeners, [id |-> nListeners + 1, does |-> does])
       /\ stateCalls' = <<<<nListeners + 1, state>>>>
  /\ nListeners' = nListeners + 1
  /\ subtaskCalls' = <<>>
  /\ UNCHANGED <<tvars, qvars, ivars, ovars, svars, addThrows, subtaskListeners>>

\* subtasks$(callback), lines 346-358.
SubtasksSubscribe ==
  /\ nListeners < MaxListeners
  /\ \E does \in Behaviours :
       subtaskListeners' = Append(subtaskListeners, [id |-> nListeners + 1, does |-> does])
  /\ nListeners' = nListeners + 1
  /\ stateCalls' = <<>>
  /\ subtaskCalls' = <<>>
  /\ UNCHANGED <<tvars, qvars, ivars, ovars, svars, addThrows, stateListeners>>

\* The host calls an unsubscribe function.
Unsubscribe ==
  /\ \E id \in 1..nListeners :
       /\ \/ \E k \in 1..Len(stateListeners) : stateListeners[k].id = id
          \/ \E k \in 1..Len(subtaskListeners) : subtaskListeners[k].id = id
       /\ stateListeners' = unsubscribe(stateListeners, id)
       /\ subtaskListeners' = unsubscribe(subtaskListeners, id)
  /\ stateCalls' = <<>>
  /\ subtaskCalls' = <<>>
  /\ UNCHANGED <<tvars, qvars, ivars, ovars, svars, addThrows, nListeners>>

\* A handler of the Task taking it from TaskRec to t, with the listeners
\* (one #setState at most, one #notifySubtaskListeners at most, the latter
\* for subtask id).
Listened(t, id) ==
  LET d == setStateListeners(stateListeners, state, t.state)
      n == IF t.notified # notified
           THEN forEach(subtaskListeners, 1, Len(subtaskListeners), id, <<>>)
           ELSE [listeners |-> subtaskListeners, calls |-> <<>>]
  IN /\ SetTask(t)
     /\ stateListeners' = d.listeners
     /\ stateCalls' = d.calls
     /\ subtaskListeners' = n.listeners
     /\ subtaskCalls' = n.calls
     /\ UNCHANGED <<qvars, ivars, ovars, svars, addThrows, nListeners, cfg>>

\* add(config) of a Task with listeners.
ListenedAdd ==
  /\ nAdded < MaxSubtasks
  /\ Listened(add(TaskRec, nAdded + 1), nAdded + 1)
  /\ nAdded' = nAdded + 1
  /\ UNCHANGED <<completeCalls, shutdownCalls>>

\* forceShutdown(reason) of a Task with listeners.
ListenedForceShutdown ==
  /\ Len(shutdownCalls) < MaxShutdownCalls
  /\ \E reason \in Reasons :
       /\ Listened(forceShutdown(TaskRec, reason), 0)
       /\ shutdownCalls' = Append(shutdownCalls, reason)
  /\ UNCHANGED <<nAdded, completeCalls>>

\* The debounce timer of a Task with listeners fires.
ListenedDebounceFire ==
  /\ debounceTimers > 0
  /\ MacrotaskTurn
  /\ Listened(debounceCallback(TaskRec), 0)
  /\ UNCHANGED <<nAdded, completeCalls, shutdownCalls>>

\* Nothing is subscribed.
NoListener ==
  /\ stateListeners = <<>>
  /\ subtaskListeners = <<>>
  /\ nListeners = 0
  /\ stateCalls = <<>>
  /\ subtaskCalls = <<>>

\* ======================================================= singleton queue
\* A resetQueue() call suspended at its await can go on.
ResetReady(r) ==
  /\ resetReturned[r] = "pending"
  /\ resetAwaits[r] > 0
  /\ qCompleteReturned[resetAwaits[r]] \in {"resolved", "threw"}

\* No continuation of a resetQueue() call is due.
SingletonTurn == \A r \in 1..MaxResetCalls : ~ResetReady(r)

\* new DynamicTaskQueue(options): the queue variables as constructed.
NewQueue ==
  /\ taskBuffer' = <<>>
  /\ qstate' = "idle"
  /\ qIsShuttingDown' = FALSE
  /\ qProcessingPromise' = NullP
  /\ tasksProcessed' = 0
  /\ tasksFailed' = 0
  /\ pipelineAlive' = TRUE
  /\ window' = 0
  /\ qprocs' = [p \in QSlots |-> NoProc]
  /\ task' = [i \in TaskIds |-> "none"]
  /\ taskPromise' = [i \in TaskIds |-> "none"]
  /\ taskError' = [i \in TaskIds |-> "none"]
  /\ qAdded' = 0
  /\ sinceAdd' = "past"
  /\ qCompleteCalls' = 0
  /\ qCompleteReturned' = [c \in 1..MaxQCompleteCalls |-> "none"]
  /\ qShutdownCalls' = <<>>

\* getQueue(options), lines 14-20, called in a turn of the event loop of its
\* own: no continuation of the instance or of a resetQueue() is due.
GetQueue ==
  /\ SingletonTurn
  /\ QMacrotaskTurn
  /\ IF singletonInstance = "null"
     THEN /\ instances < MaxInstances
          /\ singletonInstance' = "queue"
          /\ instances' = instances + 1
          /\ NewQueue
          /\ resetAwaits' = [r \in 1..MaxResetCalls |-> 0]
          /\ UNCHANGED <<qcfg, resetCalls, resetReturned>>
     ELSE UNCHANGED <<qvars, svars>>
  /\ UNCHANGED <<tvars, ivars, ovars, lvars, addThrows>>

\* resetQueue() from its call to its await (or to its return), lines 26-30.
ResetQueue ==
  /\ SingletonTurn
  /\ resetCalls < MaxResetCalls
  /\ resetCalls' = resetCalls + 1
  /\ IF singletonInstance = "null"
     THEN /\ resetReturned' = [resetReturned EXCEPT ![resetCalls + 1] = "resolved"]
          /\ UNCHANGED <<qvars, singletonInstance, resetAwaits>>
     ELSE IF qstate = "completed"
     THEN /\ singletonInstance' = "null"
          /\ resetReturned' = [resetReturned EXCEPT ![resetCalls + 1] = "resolved"]
          /\ UNCHANGED <<qvars, resetAwaits>>
     ELSE /\ qCompleteCalls < MaxQCompleteCalls
          /\ SetQueue(qComplete(QueueRec, qCompleteCalls + 1))
          /\ qCompleteCalls' = qCompleteCalls + 1
          /\ resetReturned' = [resetReturned EXCEPT ![resetCalls + 1] = "pending"]
          /\ resetAwaits' = [resetAwaits EXCEPT ![resetCalls + 1] = qCompleteCalls + 1]
          /\ UNCHANGED <<qcfg, qAdded, sinceAdd, qShutdownCalls, singletonInstance>>
  /\ UNCHANGED <<tvars, ivars, ovars, lvars, addThrows, instances>>

\* resetQueue() after its await, lines 30-33: complete() has resolved, or
\* it has thrown and resetQueue() throws in turn.
ResetResume ==
  /\ \E r \in 1..MaxResetCalls :
       /\ ResetReady(r)
       /\ IF qCompleteReturned[resetAwaits[r]] = "resolved"
          THEN /\ singletonInstance' = "null"
               /\ resetReturned' = [resetReturned EXCEPT ![r] = "resolved"]
          ELSE /\ resetReturned' = [resetReturned EXCEPT ![r] = "threw"]
               /\ UNCHANGED singletonInstance
  /\ UNCHANGED <<tvars, qvars, ivars, ovars, lvars, addThrows, instances, resetCalls, resetAwaits>>

\* The host's calls on the queue go to the instance getQueue() returns.
SingletonAdd == singletonInstance = "queue" /\ SingletonTurn /\ QAdd

SingletonForceShutdown == singletonInstance = "queue" /\ SingletonTurn /\ QForceShutdown

\* No singleton is in use.
NoSingleton ==
  /\ singletonInstance = "null"
  /\ instances = 0
  /\ resetCalls = 0
  /\ resetReturned = [r \in 1..MaxResetCalls |-> "none"]
  /\ resetAwaits = [r \in 1..MaxResetCalls |-> 0]

\* ------------------------------------------------------- specification
\* A Task after construction.
TaskInit ==
  /\ pendingSubtasks = <<>>
  /\ executedSubtasks = <<>>
  /\ state = "pending"
  /\ isShuttingDown = FALSE
  /\ isProcessing = FALSE
  /\ mainTaskExecuted = FALSE
  /\ completion = "pending"
  /\ completionError = "none"
  /\ autoCompleteTimer = "none"
  /\ autoExecuteTimer = "none"
  /\ processingPromise = NullP
  /\ debounceTimers = 0
  /\ procs = [p \in Slots |-> NoProc]
  /\ sub = [i \in SubIds |-> "none"]
  /\ children = [i \in SubIds |-> <<>>]
  /\ listed = [i \in SubIds |-> 0]
  /\ executed = [i \in SubIds |-> FALSE]
  /\ mainRun = "none"
  /\ mainStarts = 0
  /\ nAdded = 0
  /\ notified = 0
  /\ completeCalls = 0
  /\ completeReturned = [c \in 1..MaxCompleteCalls |-> "none"]
  /\ shutdownCalls = <<>>

\* A DynamicTaskQueue after construction.
QueueInit ==
  /\ taskBuffer = <<>>
  /\ qstate = "idle"
  /\ qIsShuttingDown = FALSE
  /\ qProcessingPromise = NullP
  /\ tasksProcessed = 0
  /\ tasksFailed = 0
  /\ pipelineAlive = TRUE
  /\ window = 0
  /\ qprocs = [p \in QSlots |-> NoProc]
  /\ task = [i \in TaskIds |-> "none"]
  /\ taskPromise = [i \in TaskIds |-> "none"]
  /\ taskError = [i \in TaskIds |-> "none"]
  /\ qAdded = 0
  /\ sinceAdd = "past"
  /\ qCompleteCalls = 0
  /\ qCompleteReturned = [c \in 1..MaxQCompleteCalls |-> "none"]
  /\ qShutdownCalls = <<>>

\* The Task, every configuration; the queue stays as constructed.
Init ==
  /\ cfg \in Configs
  /\ TaskInit
  /\ qcfg = [concurrent |-> FALSE, exitOnError |-> FALSE]
  /\ QueueInit
  /\ NoItem
  /\ NoPolicy
  /\ NoListener
  /\ NoSingleton
  /\ addThrows = 0

Next ==
  \/ Add
  \/ Complete
  \/ CompleteResume
  \/ ForceShutdown
  \/ DebounceFire
  \/ ProcessBatchResume
  \/ AutoExecuteFire
  \/ AutoExecuteResume
  \/ AutoCompleteFire
  \/ SubtaskEnds
  \/ MainTaskEnds

Spec == Init /\ [][Next]_vars

\* The same Task driven by a host that calls complete() once.
CompleteOnce == completeCalls = 0 /\ Complete

NextOneComplete ==
  \/ Add
  \/ CompleteOnce
  \/ CompleteResume
  \/ ForceShutdown
  \/ DebounceFire
  \/ ProcessBatchResume
  \/ AutoExecuteFire
  \/ AutoExecuteResume
  \/ AutoCompleteFire
  \/ SubtaskEnds
  \/ MainTaskEnds

SpecOneComplete == Init /\ [][NextOneComplete]_vars

\* The queue, every configuration; the Task stays as constructed.
QInit ==
  /\ qcfg \in QConfigs
  /\ QueueInit
  /\ NoItem
  /\ NoPolicy
  /\ NoListener
  /\ NoSingleton
  /\ addThrows = 0
  /\ cfg = [mode |-> "before", hasBody |-> FALSE, concurrent |-> FALSE,
            exitOnError |-> TRUE, autoExecute |-> FALSE, autoComplete |-> FALSE]
  /\ TaskInit

QNext ==
  \/ QAdd
  \/ QComplete
  \/ QCompleteResume
  \/ QForceShutdown
  \/ BufferTimeTick
  \/ ProcessQueueResume
  \/ DelayFire
  \/ DebounceElapses
  \/ QTaskEnds

QueueSpec == QInit /\ [][QNext]_vars

\* Timers fire, continuations run and (the proviso of the claims on
\* termination) every task body ends; the host owes no further call.
QProgress ==
  \/ QCompleteResume
  \/ BufferTimeTick
  \/ ProcessQueueResume
  \/ DelayFire
  \/ DebounceElapses
  \/ QTaskEnds

FairQueueSpec == QInit /\ [][QNext]_vars /\ WF_vars(QProgress)

\* A program that uses one unit: a Task (its subtask lists sequential, the
\* default) or a queue, of any configuration otherwise.
UnitInit ==
  /\ TaskInit
  /\ QueueInit
  /\ NoItem
  /\ NoPolicy
  /\ NoListener
  /\ NoSingleton
  /\ addThrows = 0
  /\ \/ /\ cfg \in {c \in Configs : ~c.concurrent}
        /\ qcfg = [concurrent |-> FALSE, exitOnError |-> FALSE]
     \/ /\ qcfg \in QConfigs
        /\ cfg = [mode |-> "before", hasBody |-> FALSE, concurrent |-> FALSE,
                  exitOnError |-> TRUE, autoExecute |-> FALSE, autoComplete |-> FALSE]

\* The host has made no call on the queue / on the Task (of the program
\* that has a queue): the unit is as constructed and none of its timers or
\* continuations has anything to do.
QueueUnused == qAdded = 0 /\ qCompleteCalls = 0 /\ Len(qShutdownCalls) = 0

TaskUnused ==
  /\ nAdded = 0 /\ completeCalls = 0 /\ Len(shutdownCalls) = 0
  /\ cfg = [mode |-> "before", hasBody |-> FALSE, concurrent |-> FALSE,
            exitOnError |-> TRUE, autoExecute |-> FALSE, autoComplete |-> FALSE]

\* The actions of the Task of a program that has no queue, and of the queue
\* of a program that has no Task.
TaskAdd == QueueUnused /\ Add

TaskComplete == QueueUnused /\ Complete

TaskCompleteResume == QueueUnused /\ CompleteResume

TaskForceShutdown == QueueUnused /\ ForceShutdown

TaskDebounceFire == QueueUnused /\ DebounceFire

TaskProcessBatchResume == QueueUnused /\ ProcessBatchResume

TaskAutoExecuteFire == QueueUnused /\ AutoExecuteFire

TaskAutoExecuteResume == QueueUnused /\ AutoExecuteResume

TaskAutoCompleteFire == QueueUnused /\ AutoCompleteFire

TaskSubtaskEnds == QueueUnused /\ SubtaskEnds

TaskMainTaskEnds == QueueUnused /\ MainTaskEnds

QueueAdd == TaskUnused /\ QAdd

QueueComplete == TaskUnused /\ QComplete

QueueCompleteResume == TaskUnused /\ QCompleteResume

QueueForceShutdown == TaskUnused /\ QForceShutdown

QueueBufferTimeTick == TaskUnused /\ BufferTimeTick

QueueProcessQueueResume == TaskUnused /\ ProcessQueueResume

QueueDelayFire == TaskUnused /\ DelayFire

QueueTaskEnds == TaskUnused /\ QTaskEnds

QueueDebounceElapses == TaskUnused /\ DebounceElapses

UnitNext ==
  \/ TaskAdd
  \/ TaskComplete
  \/ TaskCompleteResume
  \/ TaskForceShutdown
  \/ TaskDebounceFire
  \/ TaskProcessBatchResume
  \/ TaskAutoExecuteFire
  \/ TaskAutoExecuteResume
  \/ TaskAutoCompleteFire
  \/ TaskSubtaskEnds
  \/ TaskMainTaskEnds
  \/ QueueAdd
  \/ QueueComplete
  \/ QueueCompleteResume
  \/ QueueForceShutdown
  \/ QueueBufferTimeTick
  \/ QueueProcessQueueResume
  \/ QueueDelayFire
  \/ QueueTaskEnds
  \/ QueueDebounceElapses

UnitSpec == UnitInit /\ [][UnitNext]_vars

\* A Task with autoComplete whose host only adds subtasks: it calls neither
\* complete() nor forceShutdown().  Timers fire, continuations run and
\* bodies end.
AddOnlyInit ==
  /\ cfg \in {c \in Configs : c.autoComplete}
  /\ TaskInit
  /\ qcfg = [concurrent |-> FALSE, exitOnError |-> FALSE]
  /\ QueueInit
  /\ NoItem
  /\ NoPolicy
  /\ NoListener
  /\ NoSingleton
  /\ addThrows = 0

AddOnlyProgress ==
  \/ DebounceFire
  \/ ProcessBatchResume
  \/ AutoExecuteFire
  \/ AutoExecuteResume
  \/ AutoCompleteFire
  \/ SubtaskEnds
  \/ MainTaskEnds

AddOnlyNext ==
  \/ Add
  \/ AddOnlyProgress

FairAddOnlySpec == AddOnlyInit /\ [][AddOnlyNext]_vars /\ WF_vars(AddOnlyProgress)

\* The same without the assumption that timers fire and bodies end.
AddOnlySpec == AddOnlyInit /\ [][AddOnlyNext]_vars

\* The same Task whose host calls add() with lists of configs, some of them
\* without a title.
AddListNext ==
  \/ AddList
  \/ AddOnlyProgress

AddListSpec == AddOnlyInit /\ [][AddListNext]_vars

\* A Task without a body and without idle timers whose host also adds
\* children to the subtasks it holds and calls complete() once.
NestedInit ==
  /\ cfg \in {c \in Configs : ~c.hasBody /\ ~c.autoExecute /\ ~c.autoComplete}
  /\ TaskInit
  /\ qcfg = [concurrent |-> FALSE, exitOnError |-> FALSE]
  /\ QueueInit
  /\ NoItem
  /\ NoPolicy
  /\ NoListener
  /\ NoSingleton
  /\ addThrows = 0

NestedNext ==
  \/ Add
  \/ SubtaskAdd
  \/ CompleteOnce
  \/ CompleteResume
  \/ DebounceFire
  \/ ProcessBatchResume
  \/ SubtaskEnds
  \/ ChildEnds

NestedSpec == NestedInit /\ [][NestedNext]_vars

\* One item of a queue with subtask support, of any definition add(),
\* addWithSubtasks() or addTask() builds, run by the renderer.
ItemSpecInit ==
  /\ taskDef \in ItemDefs
  /\ listrRetry = 0
  /\ ItemInit
  /\ NoPolicy
  /\ NoListener
  /\ NoSingleton
  /\ addThrows = 0
  /\ TaskInit
  /\ cfg = [mode |-> "before", hasBody |-> FALSE, concurrent |-> FALSE,
            exitOnError |-> TRUE, autoExecute |-> FALSE, autoComplete |-> FALSE]
  /\ QueueInit
  /\ qcfg = [concurrent |-> FALSE, exitOnError |-> FALSE]

ItemNext ==
  \/ ExecutorStarts
  \/ ExecutorBodyEnds
  \/ StaticSubtaskEnds
  \/ DynamicTreeEnds

ItemSpec == ItemSpecInit /\ [][ItemNext]_vars

\* The same with an item the renderer retries (options.retry).
RetryInit ==
  /\ taskDef \in ItemDefs
  /\ listrRetry \in 0..MaxRetries
  /\ ItemInit
  /\ NoPolicy
  /\ NoListener
  /\ NoSingleton
  /\ addThrows = 0
  /\ TaskInit
  /\ cfg = [mode |-> "before", hasBody |-> FALSE, concurrent |-> FALSE,
            exitOnError |-> TRUE, autoExecute |-> FALSE, autoComplete |-> FALSE]
  /\ QueueInit
  /\ qcfg = [concurrent |-> FALSE, exitOnError |-> FALSE]

RetrySpec == RetryInit /\ [][ItemNext]_vars

\* A queue with subtask support of any defaultSubtaskOptions and one path of
\* an item's tree of static subtasks with any options at each level.
PolicyInit ==
  /\ queueDefaults \in Options
  /\ optionsPath \in UNION {[1..n -> Options] : n \in 1..(MaxDepth + 1)}
  /\ parentOptions = NoOptions
  /\ policies = <<>>
  /\ NoListener
  /\ NoSingleton
  /\ addThrows = 0
  /\ NoItem
  /\ TaskInit
  /\ cfg = [mode |-> "before", hasBody |-> FALSE, concurrent |-> FALSE,
            exitOnError |-> TRUE, autoExecute |-> FALSE, autoComplete |-> FALSE]
  /\ QueueInit
  /\ qcfg = [concurrent |-> FALSE, exitOnError |-> FALSE]

PolicyNext ==
  \/ RunItemList
  \/ RunNestedList

PolicySpec == PolicyInit /\ [][PolicyNext]_vars

\* A Task without a body whose host subscribes callbacks, adds subtasks and
\* shuts it down.
ListenerInit ==
  /\ cfg \in {c \in Configs : ~c.hasBody /\ ~c.autoExecute /\ ~c.autoComplete}
  /\ TaskInit
  /\ qcfg = [concurrent |-> FALSE, exitOnError |-> FALSE]
  /\ QueueInit
  /\ NoItem
  /\ NoPolicy
  /\ NoListener
  /\ NoSingleton
  /\ addThrows = 0

ListenerNext ==
  \/ StateSubscribe
  \/ SubtasksSubscribe
  \/ Unsubscribe
  \/ ListenedAdd
  \/ ListenedDebounceFire
  \/ ListenedForceShutdown

ListenerSpec == ListenerInit /\ [][ListenerNext]_vars

\* A program that uses the singleton queue only: getQueue(), add() and
\* forceShutdown() on what it returns, resetQueue().
SingletonInit ==
  /\ qcfg \in QConfigs
  /\ QueueInit
  /\ NoItem
  /\ NoPolicy
  /\ NoListener
  /\ NoSingleton
  /\ addThrows = 0
  /\ cfg = [mode |-> "before", hasBody |-> FALSE, concurrent |-> FALSE,
            exitOnError |-> TRUE, autoExecute |-> FALSE, autoComplete |-> FALSE]
  /\ TaskInit

\* Timers fire, continuations run and every task body ends.
SingletonProgress ==
  \/ ResetResume
  \/ QCompleteResume
  \/ BufferTimeTick
  \/ ProcessQueueResume
  \/ DelayFire
  \/ DebounceElapses
  \/ QTaskEnds

SingletonNext ==
  \/ GetQueue
  \/ ResetQueue
  \/ SingletonAdd
  \/ SingletonForceShutdown
  \/ SingletonProgress

SingletonSpec == SingletonInit /\ [][SingletonNext]_vars

FairSingletonSpec == SingletonInit /\ [][SingletonNext]_vars /\ WF_vars(SingletonProgress)

\* ------------------------------------------------------ claims on Task
Started == {"running", "children", "done", "failed"}
Finished == {"done", "failed", "aborted"}

\* Batches the renderer is running: submitted, run() not yet settled.
BatchesInFlight ==
  {p \in Slots : /\ procs[p].pc \in {"pb_subs", "cp_subs"}
                 /\ RunOutcome(TaskRec, procs[p].batch) = "pending"}

\* Some complete() call has resolved.
CompleteResolved ==
  \E c \in 1..MaxCompleteCalls : completeReturned[c] = "adopted" /\ completion = "resolved"

\* C1: with options.concurrent false the subtasks start and finish in the
\* order they were added (a subtask that has started has every earlier-added
\* subtask finished), and at the step at which a complete() call resolves
\* the state is 'completed'.
C1_SequentialInAddOrder ==
  [][ /\ ~cfg.concurrent =>
           \A i, j \in SubIds : (i < j /\ sub'[j] \in Started) => sub'[i] \in Finished
      /\ (CompleteResolved' /\ ~CompleteResolved) => state' = "completed" ]_vars

\* C2: mode 'before' with a body: as long as the body has not finished no
\* subtask has started.
C2_BodyBeforeSubtasks ==
  (cfg.mode = "before" /\ cfg.hasBody /\ mainRun \in {"none", "running"})
    => \A i \in SubIds : sub[i] \notin Started

\* C3: mode 'after': at the step that starts the body no accepted subtask
\* is pending, queued or executing.
C3_BodyAfterSubtasks ==
  [][ (cfg.mode = "after" /\ mainRun = "none" /\ mainRun' = "running")
        => \A i \in SubIds : sub'[i] \notin {"pending", "queued", "running", "children"} ]_vars

\* C4: 'completed' and 'failed' are terminal: no step changes the state
\* once it is one of them.
C4_TerminalStateIsStable ==
  [][ (state \in {"completed", "failed"}) => (state' = state) ]_vars

\* C8: at most one batch of subtasks is being run by the renderer.
C8_OneBatchAtATime == Cardinality(BatchesInFlight) <= 1

\* C9: a forceShutdown(reason) step taken in a state other than 'completed'
\* sets the state to 'failed', cancels both idle timers and rejects the
\* completion promise with reason unless it was settled; taken in state
\* 'completed' it changes nothing.
C9_ForceShutdownEffect ==
  [][ Len(shutdownCalls') = Len(shutdownCalls) + 1 =>
        LET reason == shutdownCalls'[Len(shutdownCalls')] IN
        IF state = "completed"
        THEN UNCHANGED <<cfg, pendingSubtasks, executedSubtasks, state, isShuttingDown,
                         isProcessing, mainTaskExecuted, completion, completionError,
                         autoCompleteTimer, autoExecuteTimer, processingPromise,
                         debounceTimers, procs, sub, children, listed, executed,
                          mainRun, mainStarts, notified>>
        ELSE /\ state' = "failed"
             /\ autoCompleteTimer' = "none"
             /\ autoExecuteTimer' = "none"
             /\ IF completion = "pending"
                THEN completion' = "rejected" /\ completionError' = reason
                ELSE completion' = completion /\ completionError' = completionError ]_vars

\* C9 witness: forceShutdown("Y") has failed a Task whose timers were armed
\* or whose batch was running, and its completion promise carries "Y".
C9_Witness ==
  /\ shutdownCalls = <<"Y">>
  /\ state = "failed"
  /\ completion = "rejected"
  /\ completionError = "Y"
  /\ \E i \in SubIds : sub[i] = "running"

\* C10: after forceShutdown() no subtask that had not started starts.
C10_NothingStartsAfterShutdown ==
  [][ Len(shutdownCalls) > 0 =>
        \A i \in SubIds : sub'[i] = "running" => sub[i] = "running" ]_vars

\* ---------------------------------------- claims on DynamicTaskQueue
\* Batches of the queue the renderer is running.
QBatchesInFlight ==
  {p \in QSlots : /\ qprocs[p].pc = "pq_run"
                  /\ QRunOutcome(QueueRec, qprocs[p].batch) = "pending"}

\* C5: every complete() call made in a non-completed state eventually
\* resolves, with the queue in state 'completed'.
C5_CompleteEventuallyResolves ==
  \A c \in 1..MaxQCompleteCalls :
    (qCompleteReturned[c] = "pending")
      ~> (qCompleteReturned[c] = "resolved" /\ qstate = "completed")

\* C6: at the step at which a complete() call resolves, every accepted task
\* has finished executing and its promise is settled.
C6_CompleteWaitsForAllTasks ==
  [][ \A c \in 1..MaxQCompleteCalls :
        (qCompleteReturned[c] = "pending" /\ qCompleteReturned'[c] = "resolved")
          => \A i \in TaskIds :
               taskPromise'[i] # "none" =>
                 (task'[i] \notin {"buffered", "queued", "running"}
                    /\ taskPromise'[i] # "pending") ]_vars

\* C7: at most one batch of the queue is being run by the renderer.
C7_QueueOneBatchAtATime == Cardinality(QBatchesInFlight) <= 1

\* C11: a forceShutdown(reason) step rejects the promise of every buffered
\* task with reason, empties the buffer, sets the state 'completed', leaves
\* every running task running and every suspended #processQueue as it is;
\* afterwards the state stays 'completed' and a task dropped from the
\* buffer never executes.
C11_QueueForceShutdownEffect ==
  [][ /\ Len(qShutdownCalls') = Len(qShutdownCalls) + 1 =>
           LET reason == qShutdownCalls'[Len(qShutdownCalls')] IN
           /\ taskBuffer' = <<>>
           /\ qstate' = "completed"
           /\ \A i \in TaskIds :
                /\ task[i] = "buffered" =>
                     /\ taskPromise'[i] = "rejected"
                     /\ taskError'[i] = reason
                     /\ task'[i] = "dropped"
                /\ task[i] \in {"queued", "running"} =>
                     (task'[i] = task[i] /\ taskPromise'[i] = taskPromise[i])
           /\ \A p \in QSlots : qprocs[p].kind = "PQ" => qprocs'[p] = qprocs[p]
      /\ Len(qShutdownCalls) > 0 => qstate' = "completed"
      /\ \A i \in TaskIds : task[i] = "dropped" => task'[i] = "dropped" ]_vars

\* C11 witness: forceShutdown("X") found two tasks in the buffer while a
\* batch was running; both are rejected with "X" and the batch still runs.
C11_Witness ==
  /\ qShutdownCalls = <<"X">>
  /\ Cardinality({i \in TaskIds : task[i] = "dropped" /\ taskPromise[i] = "rejected"
                                     /\ taskError[i] = "X"}) = 2
  /\ \E i \in TaskIds : task[i] = "running"
  /\ qstate = "completed"

\* C12: at the step at which a complete() call is left by the failure of
\* the body or of a subtask it was draining, the state is 'failed' and the
\* completion promise is rejected.
C12_FailureWhileDraining ==
  [][ \A c \in 1..MaxCompleteCalls :
        (completeReturned[c] = "pending" /\ completeReturned'[c] = "threw")
          => (state' = "failed" /\ completion' = "rejected") ]_vars

\* C13: exitOnError true: once a task has failed no further task starts,
\* and the #processQueue whose batch failed leaves the queue in its
\* terminal state 'completed'.
C13_ExitOnErrorStopsQueue ==
  [][ (qcfg.exitOnError /\ \E i \in TaskIds : task[i] = "failed") =>
        /\ \A j \in TaskIds : task'[j] = "running" => task[j] = "running"
        /\ \A p \in QSlots :
             (/\ qprocs[p].pc = "pq_run"
              /\ QRunOutcome(QueueRec, qprocs[p].batch) = "rejected"
              /\ qprocs'[p].kind = "none") => qstate' = "completed" ]_vars

\* C14: once the queue has reached 'completed', the promise of every
\* accepted task is eventually settled.
C14_EveryPromiseSettles ==
  (qstate = "completed") ~> (\A i \in TaskIds : taskPromise[i] # "pending")

\* C15: exitOnError false: no task is aborted by another task's failure (a
\* task waiting in a submitted batch is in a batch the renderer is still
\* running), a task that succeeded has its promise resolved, a task that
\* threw has its own promise rejected with its error and no other promise
\* carries that error, and stats.failed / stats.processed count the tasks
\* that threw / succeeded.
C15_FailuresAreIsolated ==
  ~qcfg.exitOnError =>
    /\ \A i \in TaskIds :
         /\ task[i] # "aborted"
         /\ task[i] = "queued" =>
              \E p \in QSlots :
                /\ qprocs[p].pc = "pq_run"
                /\ \E k \in 1..Len(qprocs[p].batch) : qprocs[p].batch[k] = i
                /\ \E k \in 1..Len(qprocs[p].batch) : task[qprocs[p].batch[k]] = "running"
         /\ task[i] = "done" => taskPromise[i] = "resolved"
         /\ task[i] = "failed" => (taskPromise[i] = "rejected" /\ taskError[i] = "error")
         /\ taskError[i] = "error" => task[i] = "failed"
    /\ tasksFailed = Cardinality({i \in TaskIds : task[i] = "failed"})
    /\ tasksProcessed = Cardinality({i \in TaskIds : task[i] = "done"})

\* C15 witness: a concurrent batch of three in which the second task threw:
\* the other two resolved, failed = 1 and processed = 2.
C15_Witness ==
  /\ ~qcfg.exitOnError
  /\ qcfg.concurrent
  /\ task = <<"done", "failed", "done">>
  /\ taskPromise = <<"resolved", "rejected", "resolved">>
  /\ tasksFailed = 1
  /\ tasksProcessed = 2
  /\ qShutdownCalls = <<>>

\* C18: when the renderer is done with a subtask that succeeded, every child
\* for which Subtask.add() returned a handle has been executed.
C18_EveryChildRuns ==
  \A i \in SubIds :
    sub[i] = "done" =>
      \A k \in 1..Len(children[i]) : children[i][k] \in {"done", "failed"}

C16_CompleteOnTerminalUnit ==
  [][ /\ (completeCalls' = completeCalls + 1 /\ state \in {"completed", "failed"}) =>
           /\ UNCHANGED <<pendingSubtasks, executedSubtasks, state, isShuttingDown,
                          isProcessing, mainTaskExecuted, completion, completionError,
                          autoCompleteTimer, autoExecuteTimer, processingPromise,
                          debounceTimers, procs, sub, children, listed, executed,
                          mainRun, mainStarts, notified>>
           /\ completeReturned'[completeCalls'] = "adopted"
           /\ completion \in {"resolved", "rejected"}
      /\ completion # "pending" =>
           (completion' = completion /\ completionError' = completionError)
      /\ (qCompleteCalls' = qCompleteCalls + 1 /\ qstate = "completed") =>
           /\ UNCHANGED <<taskBuffer, qstate, qIsShuttingDown, qProcessingPromise,
                          tasksProcessed, tasksFailed, pipelineAlive, window, qprocs,
                          task, taskPromise, taskError>>
           /\ qCompleteReturned'[qCompleteCalls'] = "resolved" ]_vars

\* C16 witness: the second complete() call on a completed Task whose
\* subtasks ran has returned the resolved completion promise.
C16_Witness ==
  /\ completeCalls = 2
  /\ completeReturned = <<"adopted", "adopted">>
  /\ state = "completed"
  /\ completion = "resolved"
  /\ \E i \in SubIds : sub[i] = "done"

\* The Task has begun shutdown or has reached a terminal state (every
\* assignment of 'completed' or 'failed' settles the completion promise,
\* and nothing else does).
TaskShutDownOrEnded == isShuttingDown \/ completion # "pending"

\* C17: an add() call made after shutdown has begun or a terminal state was
\* reached accepts nothing: on a Task it returns null (the subtask is not
\* created) and leaves the pending buffer, both idle timers, the state and
\* the subtasks$ listeners untouched; on a queue it returns a rejected
\* promise and leaves the buffer and the counters untouched.
C17_AddAfterShutdownRefused ==
  [][ /\ (nAdded' = nAdded + 1 /\ TaskShutDownOrEnded) =>
           /\ sub'[nAdded'] = "none"
           /\ UNCHANGED <<pendingSubtasks, autoCompleteTimer, autoExecuteTimer,
                          state, notified>>
      /\ (qAdded' = qAdded + 1 /\ (qIsShuttingDown \/ qstate = "completed")) =>
           /\ taskPromise'[qAdded'] = "rejected"
           /\ task'[qAdded'] = "none"
           /\ UNCHANGED <<taskBuffer, tasksProcessed, tasksFailed>> ]_vars

\* C19: an idle unit drains a batch only after batchDebounceMs have elapsed
\* since the most recent add().  On a Task the debounce timers have the
\* same delay and fire in the order they were armed, so the window of the
\* most recent add() has elapsed only when no debounce timer is left; on a
\* queue the step is an emission of the pipeline that starts #processQueue.
C19_DebounceRestartsOnAdd ==
  [][ /\ (debounceTimers' = debounceTimers - 1 /\ ~isProcessing /\ isProcessing')
           => debounceTimers' = 0
      /\ (/\ qstate = "idle"
          /\ qstate' = "processing"
          /\ qCompleteCalls' = qCompleteCalls) => sinceAdd = "past" ]_vars

\* ------------------------------------------- claims on the idle timers
\* A subtask that was accepted and that the renderer is not done with.
Unsettled == {"pending", "queued", "running", "children"}

\* C21: the autoComplete timer completes the Task only when the pending
\* buffer is empty, every accepted subtask has settled and (mode 'after')
\* the body has run to its end; an accepted add() leaves no autoComplete
\* timer armed; and the timer is armed only once every batch has settled, so
\* that a full period of inactivity precedes 'completed'.
C21_AutoCompleteOnlyWhenIdle ==
  [][ /\ (autoCompleteTimer = "armed" /\ autoCompleteTimer' = "fired"
            /\ ~isShuttingDown /\ state' = "completed") =>
           /\ pendingSubtasks = <<>>
           /\ \A i \in SubIds : sub[i] \notin Unsettled
           /\ cfg.mode = "after" => (mainTaskExecuted /\ mainRun # "running")
      /\ (nAdded' = nAdded + 1 /\ sub'[nAdded'] = "pending") => autoCompleteTimer' = "none"
      /\ autoCompleteTimer' = "armed" => \A i \in SubIds : sub'[i] \notin Unsettled ]_vars

\* C22: once shutdown has been requested (#isShuttingDown is set by
\* complete(), forceShutdown() and the autoComplete callback) no step arms
\* the autoExecute timer or the autoComplete timer, and no autoComplete
\* timer is left armed.
C22_NoTimerArmedAfterShutdown ==
  [][ isShuttingDown =>
        /\ autoExecuteTimer' = "armed" => autoExecuteTimer = "armed"
        /\ autoCompleteTimer' # "armed" ]_vars

\* C22 witness: shutdown was requested on a Task with both timers
\* configured while a batch was in flight; the batch has settled and its
\* #processBatch is about to finish with the pending buffer empty.
C22_Witness ==
  /\ cfg.autoExecute /\ cfg.autoComplete
  /\ isShuttingDown
  /\ pendingSubtasks = <<>>
  /\ autoCompleteTimer = "none"
  /\ \E p \in Slots :
       /\ procs[p].pc = "pb_subs"
       /\ RunOutcome(TaskRec, procs[p].batch) = "resolved"

C24_NoSubtaskAfterBodyThrows ==
  [][ (cfg.mode = "before" /\ mainRun = "failed") =>
        \A i \in SubIds : sub[i] = "pending" => sub'[i] = "pending" ]_vars

\* ------------------------------------------- claims on the lifecycle
\* C25: at the step at which a #processBatch whose batch the renderer ran
\* to its end finishes with the pending buffer empty and shutdown not
\* requested, the state becomes 'pending'.
C25_IdleAfterBatch ==
  [][ \A p \in Slots :
        (/\ procs[p].pc = "pb_subs"
         /\ RunOutcome(TaskRec, procs[p].batch) = "resolved"
         /\ procs'[p].kind = "none"
         /\ pendingSubtasks' = <<>>
         /\ ~isShuttingDown') => state' = "pending" ]_vars

\* C26: once an effective complete() call has emitted 'completing'
\* (#isShuttingDown is set and forceShutdown() was not called), the state of
\* the queue is 'completing' or 'completed'.
C26_CompletingOnlyToCompleted ==
  (qIsShuttingDown /\ qShutdownCalls = <<>>) => qstate \in {"completing", "completed"}

\* C27: mode 'after' without autoExecute: as long as complete() has not
\* been called the body has not been started nor marked executed, the
\* autoComplete timer is not armed and the state is not 'completed'.
C27_AfterModeNeedsATrigger ==
  (cfg.mode = "after" /\ ~cfg.autoExecute /\ completeCalls = 0) =>
    /\ mainStarts = 0
    /\ mainRun = "none"
    /\ ~mainTaskExecuted
    /\ autoCompleteTimer = "none"
    /\ state # "completed"

\* C27 witness: such a Task with a body and autoComplete configured, both
\* subtasks added, run and finished, every timer fired and every
\* continuation run: it is idle and not completed.
C27_Witness ==
  /\ cfg.mode = "after" /\ ~cfg.autoExecute /\ cfg.autoComplete /\ cfg.hasBody
  /\ completeCalls = 0
  /\ shutdownCalls = <<>>
  /\ sub = <<"done", "done">>
  /\ executedSubtasks = <<1, 2>>
  /\ debounceTimers = 0
  /\ \A p \in Slots : procs[p].kind = "none"
  /\ state = "processing"
  /\ completion = "pending"

\* ------------------------------- claims on the items of the queue variant
\* C28: an item with subtaskMode 'before', a body and static subtasks: a
\* static subtask has started only if the body has completed without
\* throwing.
C28_QueueBeforeModeBodyFirst ==
  (subtaskModeOf(taskDef) = "before" /\ hasExecutor(taskDef) /\ hasSubtasks(taskDef)) =>
    \A k \in StaticIds : xsub[k] \in {"running", "done", "failed"} => bodyRun = "ok"

C30_QueueOnlyModeSkipsBody ==
  subtaskModeOf(taskDef) = "only" => bodyRun = "none"

\* What reading a key of an options object gives.
valueOf(v) == IF v = "absent" THEN "undefined" ELSE v

\* The first boolean given for a key from level i of the path upwards, else
\* the one of the queue's defaultSubtaskOptions, else the built-in default.
RECURSIVE FirstGiven(_, _, _)
FirstGiven(key, i, builtin) ==
  IF i = 0
  THEN IF queueDefaults[key] \in {"true", "false"} THEN queueDefaults[key] ELSE builtin
  ELSE IF optionsPath[i][key] \in {"true", "false"} THEN optionsPath[i][key]
  ELSE FirstGiven(key, i - 1, builtin)

\* C31: the list of children of the node at every level of the path was run
\* with, for concurrent and for exitOnError, the node's own option where
\* given, else the nearest ancestor's, else the queue's
\* defaultSubtaskOptions, else false / true.
C31_OptionsInherited ==
  \A i \in 1..Len(policies) :
    /\ valueOf(policies[i].concurrent) = FirstGiven("concurrent", i, "false")
    /\ valueOf(policies[i].exitOnError) = FirstGiven("exitOnError", i, "true")

\* C31 restricted to options objects whose keys hold a boolean or are
\* absent: there the inheritance is as stated.
C31_OptionsInheritedWhenNoUndefined ==
  (/\ \A k \in {"concurrent", "exitOnError"} : queueDefaults[k] # "undefined"
   /\ \A j \in 1..Len(optionsPath) :
        \A k \in {"concurrent", "exitOnError"} : optionsPath[j][k] # "undefined")
  => C31_OptionsInherited

\* One call per listener of ls, in the order of ls, each with arg.
CallsToAll(ls, arg) == [k \in 1..Len(ls) |-> <<ls[k].id, arg>>]

\* C32: whenever a handler changes the Task's state, it calls every state$
\* listener registered at that moment, in registration order, with the new
\* state, whatever the listeners do; and whenever add() accepts a subtask
\* it calls every subtasks$ listener likewise with the subtask.
C32_ListenersAllCalled ==
  [][/\ (state' # state /\ nListeners' = nListeners)
        => stateCalls' = CallsToAll(stateListeners, state')
     /\ notified' # notified
        => subtaskCalls' = CallsToAll(subtaskListeners, nAdded')]_vars

\* C32 for listeners that return or throw: none of them is skipped.
C32_ThrowingListenersIsolated ==
  [][((\A k \in 1..Len(stateListeners) : stateListeners[k].does # "unsubscribes")
      /\ (\A k \in 1..Len(subtaskListeners) : subtaskListeners[k].does # "unsubscribes"))
     => (/\ (state' # state /\ nListeners' = nListeners)
            => stateCalls' = CallsToAll(stateListeners, state')
         /\ notified' # notified
            => subtaskCalls' = CallsToAll(subtaskListeners, nAdded'))]_vars

\* C33: every resetQueue() call that has to wait eventually resolves, with
\* the singleton cleared.
C33_ResetEventuallyResolves ==
  \A r \in 1..MaxResetCalls :
    (resetReturned[r] = "pending") ~> (resetReturned[r] = "resolved")

\* C34: once the renderer is done with an item, the item's promise and the
\* counters show its final outcome only: an item that ended well, after
\* however many failed attempts, has its promise resolved and has added one
\* to stats.processed and nothing to stats.failed.
C34_RetriedItemCountsOnce ==
  xTask = "done" => (xPromise = "resolved" /\ xProcessed = 1 /\ xFailed = 0)

\* The item's subtasks are run as the Listr its task returns: the static
\* ones in mode 'only', or the sub-tree its body returns.
OnlySubtasks == subtaskModeOf(taskDef) = "only" /\ hasSubtasks(taskDef)
StaticFinished == \A k \in 1..taskDef.subtasks : xsub[k] \in {"done", "failed", "aborted"}

\* C35: the promise of an item with subtasks is settled only once all its
\* subtasks have finished, and when the item fails because one of them
\* failed the promise is rejected and the item counts as failed, not as
\* processed.
C35_PromiseAfterSubtasks ==
  /\ OnlySubtasks =>
       /\ xPromise # "pending" => StaticFinished
       /\ xTask = "failed" => (xPromise = "rejected" /\ xFailed = 1 /\ xProcessed = 0)
  /\ taskDef.executor = "listr" =>
       /\ xPromise = "resolved" => dynTree \in {"done", "failed"}
       /\ dynTree = "failed" => (xPromise = "rejected" /\ xFailed = 1 /\ xProcessed = 0)

\* C36: while a subtask is executing (its body or its nested list is
\* running in the renderer) the Task is not 'completed' and its completion
\* promise is not resolved.
C36_NotCompletedWhileSubtaskRuns ==
  (\E i \in SubIds : sub[i] \in {"running", "children"})
    => (state # "completed" /\ completion # "resolved")

\* C37: the lifecycle state and the completion promise agree: the state is
\* 'completed' exactly when the promise is resolved and 'failed' exactly
\* when it is rejected.
C37_StateAgreesWithCompletion ==
  /\ state = "completed" <=> completion = "resolved"
  /\ state = "failed" <=> completion = "rejected"

\* The top-level subtasks add() has accepted so far.
Accepted == {i \in SubIds : sub[i] # "none"}

\* C38: subtaskCount is the number of top-level subtasks add() has accepted
\* so far, whatever has become of them.
C38_SubtaskCountIsAccepted == subtaskCount(TaskRec) = Cardinality(Accepted)

\* C39: an add(list) call that throws has no effect: the pending buffer is
\* as before, no subtasks$ listener was notified and no timer was changed.
C39_ThrowingAddHasNoEffect ==
  [][addThrows' # addThrows
     => /\ pendingSubtasks' = pendingSubtasks
        /\ notified' = notified
        /\ autoExecuteTimer' = autoExecuteTimer
        /\ autoCompleteTimer' = autoCompleteTimer
        /\ debounceTimers' = debounceTimers]_vars

\* C39, the timers alone.
C39_ThrowingAddKeepsTimers ==
  [][addThrows' # addThrows
     => /\ autoExecuteTimer' = autoExecuteTimer
        /\ autoCompleteTimer' = autoCompleteTimer
        /\ debounceTimers' = debounceTimers]_vars

\* C40: whenever the queue's state is 'completed' its buffer is empty, and
\* a queue in state 'completed' stays in it whatever is called or ends.
C40_QueueCompletedIsFinal ==
  /\ [](qstate = "completed" => Len(taskBuffer) = 0)
  /\ [][qstate = "completed" => qstate' = "completed"]_vars

\* C40 witness: the queue is 'completed' after a forceShutdown() and a
\* complete(); a task of a batch in flight has ended since and an add() was
\* refused.
C40_Witness ==
  /\ qstate = "completed"
  /\ Len(taskBuffer) = 0
  /\ Len(qShutdownCalls) = 1
  /\ qCompleteCalls >= 1
  /\ \E i \in TaskIds : task[i] = "done"
  /\ \E i \in TaskIds : taskPromise[i] = "rejected" /\ taskError[i] = "shutting down"
====
